---- MODULE Spec2Model ----
(***************************************************************************)
(* A model of the yomi acquisition pipeline.                               *)
(*                                                                         *)
(*   Spec       the chapter loop of YomiCore._download_manga_async and     *)
(*              YomiCore._download_single_chapter (src/yomi/core.py)       *)
(*   SpecFetch  BaseExtractor.download_image (src/yomi/extractors/base.py) *)
(*   SpecOrder  page file naming (core.py) and the sorted enumeration of   *)
(*              the packagers (src/yomi/utils/archive.py)                  *)
(*   SpecFilter, SpecResolve, SpecCbz, SpecPdf, SpecReferer, SpecResume    *)
(*              are introduced where their actions are defined             *)
(*                                                                         *)
(* Every specification is over the same variables; the variables another   *)
(* specification owns stay at their idle value.                            *)
(***************************************************************************)
EXTENDS Integers, Sequences, FiniteSets, TLC

VARIABLES
    \* ---- the run (Spec) ----
    chapters,   \* the filtered chapter list: a sequence of titles
    fmt,        \* self.format
    workers,    \* self.workers
    history,    \* HistoryStore: the set of completed chapter titles of the series
    pos,        \* index of the chapter the for loop is at
    pc,         \* where the coordinating coroutine is
    chap,       \* per list position: what has happened to that chapter
    task,       \* task[i][p]: the page download task of page p of chapter i
    dirExists,  \* per output path: the chapter folder exists
    dirFiles,   \* per output path: the page files in the chapter folder
    archive,    \* per output path: the packaged file (pdf or cbz)
    \* ---- one download_image call (SpecFetch) ----
    f_url, f_hint, f_k, f_pc, f_log, f_disk,
    \* ---- one chapter's page files (SpecOrder) ----
    o_n, o_ext, o_done, o_pc, o_entries,
    \* ---- one _filter_chapters call (SpecFilter) ----
    fl_chapters, fl_range, fl_pc, fl_result,
    \* ---- the head of a run: resolution and series setup (SpecResolve) ----
    rs_sites,     \* self.sites_config, in iteration order
    rs_hunter,    \* MirrorHunter was imported
    rs_input,     \* the target the user gave
    rs_pc,        \* where the coroutine is
    rs_matches,   \* the candidates, ranked
    rs_options,   \* the candidates listed by the prompt
    rs_answer,    \* what the user answered to the prompt (-1: not asked)
    rs_selected,  \* the key handed to _finalize_target
    rs_url,       \* what _resolve_target returned
    rs_log,       \* the collaborators called so far
    \* ---- one create_cbz_archive call (SpecCbz) ----
    z_listing, z_meta, z_pc, z_entries, z_ok,
    \* ---- one create_pdf_document call (SpecPdf) ----
    p_listing,    \* the files of the source directory, in os.walk order
    p_pc,         \* where the call is
    p_k,          \* how many files of the sorted listing have been visited
    p_images,     \* the list handed to img2pdf.convert
    p_disk,       \* the files of the directory: name and the picture it holds
    p_doc,        \* the pages of the document written, one picture each
    p_ok,         \* the value returned
    \* ---- a run after a run (SpecResume) ----
    r_run,        \* 1: the first run, 2: the run that follows it
    r_prior       \* what the first run had done when it ended

runVars   == <<chapters, fmt, workers, history, pos, pc, chap, task,
               dirExists, dirFiles, archive>>
fetchVars == <<f_url, f_hint, f_k, f_pc, f_log, f_disk>>
orderVars == <<o_n, o_ext, o_done, o_pc, o_entries>>
filterVars == <<fl_chapters, fl_range, fl_pc, fl_result>>
resolveVars == <<rs_sites, rs_hunter, rs_input, rs_pc, rs_matches, rs_options,
                 rs_answer, rs_selected, rs_url, rs_log>>
cbzVars   == <<z_listing, z_meta, z_pc, z_entries, z_ok>>
pdfVars   == <<p_listing, p_pc, p_k, p_images, p_disk, p_doc, p_ok>>
resumeVars == <<r_run, r_prior>>
vars      == <<runVars, fetchVars, orderVars, filterVars, resolveVars, cbzVars,
               pdfVars, resumeVars>>

\* What the actions of one specification leave alone.
notRun     == <<fetchVars, orderVars, filterVars, resolveVars, cbzVars, pdfVars,
                resumeVars>>
notFetch   == <<runVars, orderVars, filterVars, resolveVars, cbzVars, pdfVars,
                resumeVars>>
notOrder   == <<runVars, fetchVars, filterVars, resolveVars, cbzVars, pdfVars,
                resumeVars>>
notFilter  == <<runVars, fetchVars, orderVars, resolveVars, cbzVars, pdfVars,
                resumeVars>>
notResolve == <<runVars, fetchVars, orderVars, filterVars, cbzVars, pdfVars,
                resumeVars>>
notCbz     == <<runVars, fetchVars, orderVars, filterVars, resolveVars, pdfVars,
                resumeVars>>
notPdf     == <<runVars, fetchVars, orderVars, filterVars, resolveVars, cbzVars,
                resumeVars>>

(***************************************************************************)
(* Bounds of the model.                                                    *)
(***************************************************************************)
MaxPages    == 2
MaxWorkers  == 2

(***************************************************************************)
(* Titles are sequences of characters, so that the sanitisation of         *)
(* core.py:291 is computed and not assumed injective.                      *)
(***************************************************************************)
TitleA == <<"1", ".", "5">>
TitleB == <<"1", "5">>
TitleC == <<" ", "2", "?">>
Titles == {TitleA, TitleB, TitleC}

\* The chapter list of the source, in the order the extractor returns it.
Catalogue == <<TitleA, TitleB, TitleC>>

AlnumChars == {"0", "1", "2", "3", "4", "5", "6", "7", "8", "9", "a", "b", "c"}

\* c.isalnum() or c in (' ', '-', '_')
KeepChar(c) == c \in AlnumChars \/ c \in {" ", "-", "_"}

RECURSIVE LStrip(_)
LStrip(s) == IF s # <<>> /\ Head(s) = " " THEN LStrip(Tail(s)) ELSE s

RECURSIVE RStrip(_)
RStrip(s) ==
    IF s # <<>> /\ s[Len(s)] = " " THEN RStrip(SubSeq(s, 1, Len(s) - 1)) ELSE s

\* "".join([c for c in title if ...]).strip()
Sanitize(t) == RStrip(LStrip(SelectSeq(t, KeepChar)))

Paths == {Sanitize(t) : t \in Titles}

Formats == {"folder", "pdf", "cbz"}

(***************************************************************************)
(* HistoryStore (yomi/database.py, YomiDB): a durable set of completed     *)
(* (series, chapter title) keys.  One series per run, so the key is the    *)
(* literal chapter title.                                                  *)
(***************************************************************************)
IsCompleted(h, t) == t \in h

MarkCompleted(h, t) == h \cup {t}

(***************************************************************************)
(* The decisions of the chapter loop and of _download_single_chapter.      *)
(***************************************************************************)
\* The dedup check left out.
ShouldSkipNever(h, t) == FALSE

\* core.py:253  if self.db.is_completed(manga_title, chapter['title'])
ShouldSkip(h, t) == IsCompleted(h, t)

\* The empty-list check of core.py:297 left out.
PagesEmptyIgnored(n) == FALSE

\* core.py:297  if not pages: return
PagesEmpty(n) == n = 0

\* core.py:315-327  which formats have a packaging step
NeedsPackaging(f) == f \in {"pdf", "cbz"}

\* success set whatever the packaging call returned.
SuccessUnconditional(f, packed) == TRUE

\* core.py:313-329  success: set by a true packaging result, or by the else branch
Success(f, packed) == IF NeedsPackaging(f) THEN packed ELSE TRUE

\* A connector that admits one connection more than self.workers.
ConnectorLimitOffByOne(w) == w + 1

\* core.py:208  aiohttp.TCPConnector(limit=self.workers)
ConnectorLimit(w) == w

\* aiohttp's connector: limit 0 means no limit, otherwise at most limit
\* connections are acquired at a time; a request waits for a free one.
CanAcquire(n, limit) == limit = 0 \/ n < limit

PageIds == 1..MaxPages

\* The positions of a chapter list: a list is shorter than the catalogue.
ChapIds == {i \in DOMAIN Catalogue : i < Len(Catalogue)}

InFlightSet == {ip \in ChapIds \X PageIds : task[ip[1]][ip[2]] = "inflight"}
InFlight    == Cardinality(InFlightSet)

Running(i) == {p \in PageIds : task[i][p] \in {"waiting", "inflight"}}

PathOf(i) == Sanitize(chapters[i])

NoArchive == [exists |-> FALSE, by |-> 0, pages |-> {}, meta |-> FALSE]

NoSnap == [taken |-> FALSE, dirExists |-> FALSE, files |-> {}, arch |-> NoArchive]

\* What has happened to one chapter of the list: its state (4.2 of the
\* design), the calls made for it and the results of its page downloads.
NewChap == [st |-> "Pending", doneAtReach |-> FALSE, snap |-> NoSnap,
            mkdir |-> FALSE, getPages |-> 0, got |-> FALSE, npages |-> 0,
            started |-> 0, nOk |-> 0, nFail |-> 0,
            pack |-> "none", marked |-> FALSE, exc |-> FALSE]

NoTasks == [p \in PageIds |-> "none"]

\* The lists a range filter can make of it: its subsequences, order kept.
\* A run is over one chapter or over two chapters of the catalogue.
RECURSIVE SubLists(_)
SubLists(s) ==
    IF s = <<>> THEN {<<>>}
    ELSE LET rest == SubLists(Tail(s))
         IN  rest \cup {<<Head(s)>> \o r : r \in rest}

ChapterLists == {l \in SubLists(Catalogue) : l # <<>> /\ l # Catalogue}

\* What an earlier run that completed the chapters of h left on disk.
PriorDirExists(h, f, q) == f = "folder" /\ \E t \in h : Sanitize(t) = q
PriorArchive(h, f, q) ==
    IF f # "folder" /\ \E t \in h : Sanitize(t) = q
    THEN [exists |-> TRUE, by |-> 0, pages |-> {1}, meta |-> f = "cbz"]
    ELSE NoArchive

FetchIdle ==
    /\ f_url = <<>> /\ f_hint = <<>> /\ f_k = 0 /\ f_pc = "idle"
    /\ f_log = <<>> /\ f_disk = 0

OrderIdle ==
    /\ o_n = 0 /\ o_ext = <<>> /\ o_done = <<>> /\ o_pc = "idle" /\ o_entries = <<>>

FilterIdle ==
    /\ fl_chapters = <<>> /\ fl_range = <<>> /\ fl_pc = "idle" /\ fl_result = <<>>

ResolveIdle ==
    /\ rs_sites = <<>> /\ rs_hunter = FALSE /\ rs_input = <<>> /\ rs_pc = "idle"
    /\ rs_matches = <<>> /\ rs_options = <<>> /\ rs_answer = -1
    /\ rs_selected = <<>> /\ rs_url = <<>>
    /\ rs_log = {}

CbzIdle ==
    /\ z_listing = <<>> /\ z_meta = FALSE /\ z_pc = "idle" /\ z_entries = <<>>
    /\ z_ok = FALSE

PdfIdle ==
    /\ p_listing = <<>> /\ p_pc = "idle" /\ p_k = 0 /\ p_images = <<>>
    /\ p_disk = {} /\ p_doc = <<>> /\ p_ok = FALSE

ResumeIdle ==
    /\ r_run = 1 /\ r_prior = <<>>

RunIdle ==
    /\ chapters = <<>> /\ fmt = "folder" /\ workers = 1 /\ history = {}
    /\ pos = 1 /\ pc = "idle" /\ chap = <<>>
    /\ task = [i \in ChapIds |-> NoTasks]
    /\ dirExists = [q \in Paths |-> FALSE]
    /\ dirFiles = [q \in Paths |-> {}]
    /\ archive = [q \in Paths |-> NoArchive]

Init ==
    /\ chapters \in ChapterLists
    /\ fmt \in Formats
    /\ workers \in 0..MaxWorkers
    /\ history \in SUBSET Titles
    /\ pos = 1
    /\ pc = "loop"
    /\ chap = [i \in 1..Len(chapters) |-> NewChap]
    /\ task = [i \in ChapIds |-> NoTasks]
    /\ dirExists = [q \in Paths |-> PriorDirExists(history, fmt, q)]
    /\ dirFiles = [q \in Paths |-> IF PriorDirExists(history, fmt, q) THEN {<<1, 0>>} ELSE {}]
    /\ archive = [q \in Paths |-> PriorArchive(history, fmt, q)]
    /\ FetchIdle
    /\ OrderIdle
    /\ FilterIdle
    /\ ResolveIdle
    /\ CbzIdle
    /\ PdfIdle
    /\ ResumeIdle

\* The tasks still scheduled when the event loop is torn down are cancelled.
CancelAll(tk) ==
    [i \in ChapIds |-> [p \in PageIds |->
        IF tk[i][p] \in {"waiting", "inflight"} THEN "cancelled" ELSE tk[i][p]]]

\* The loop reaches chapter i: whether the HistoryStore holds it, and what is
\* on disk at its output path, at that moment.
Reached(i) ==
    [chap EXCEPT ![i].doneAtReach = IsCompleted(history, chapters[i]),
                 ![i].snap = [taken |-> TRUE,
                              dirExists |-> dirExists[PathOf(i)],
                              files |-> dirFiles[PathOf(i)],
                              arch |-> archive[PathOf(i)]]]

\* core.py:252-256  the dedup hit: print, advance the bar, continue
SkipChapter ==
    /\ pc = "loop" /\ pos <= Len(chapters)
    /\ ShouldSkip(history, chapters[pos])
    /\ chap' = [Reached(pos) EXCEPT ![pos].st = "Skipped"]
    /\ pos' = pos + 1
    /\ UNCHANGED <<chapters, fmt, workers, history, pc, task, dirExists, dirFiles, archive>>
    /\ UNCHANGED notRun

\* core.py:258, 282-296  metadata, sanitised folder name, os.makedirs (outside
\* the try block), then the call of extractor.get_pages
BeginChapter ==
    /\ pc = "loop" /\ pos <= Len(chapters)
    /\ ~ShouldSkip(history, chapters[pos])
    /\ \E mkdirOk \in BOOLEAN :
        IF mkdirOk
        THEN /\ dirExists' = [dirExists EXCEPT ![PathOf(pos)] = TRUE]
             /\ chap' = [Reached(pos) EXCEPT ![pos].st = "Fetching", ![pos].mkdir = TRUE,
                                             ![pos].getPages = 1]
             /\ pc' = "getpages"
             /\ task' = task
        ELSE \* OSError leaves _download_single_chapter, the loop and asyncio.run
             /\ chap' = [Reached(pos) EXCEPT ![pos].mkdir = TRUE, ![pos].exc = TRUE]
             /\ pc' = "crashed"
             /\ task' = CancelAll(task)
             /\ dirExists' = dirExists
    /\ UNCHANGED <<chapters, fmt, workers, history, pos, dirFiles, archive>>
    /\ UNCHANGED notRun

\* core.py:335-337  except Exception: the chapter is given up, the loop goes on
ChapterFailed(i) == [chap EXCEPT ![i].st = "Failed", ![i].exc = TRUE]

\* core.py:296  get_pages raises
GetPagesRaises ==
    /\ pc = "getpages"
    /\ chap' = ChapterFailed(pos)
    /\ pos' = pos + 1
    /\ pc' = "loop"
    /\ UNCHANGED <<chapters, fmt, workers, history, task, dirExists, dirFiles, archive>>
    /\ UNCHANGED notRun

\* The first step of every task of a gather runs before anything else does:
\* the tasks are queued in page order when gather is called.  A task whose
\* URL does not parse raises there (base.py:44-46, outside the try block);
\* any other task takes a connection if one is free and waits otherwise.
RECURSIVE StartTasks(_, _, _, _)
StartTasks(p, n, raising, busy) ==
    IF p > n THEN <<>>
    ELSE IF p \in raising
         THEN <<"raised">> \o StartTasks(p + 1, n, raising, busy)
         ELSE IF CanAcquire(busy, ConnectorLimit(workers))
              THEN <<"inflight">> \o StartTasks(p + 1, n, raising, busy + 1)
              ELSE <<"waiting">> \o StartTasks(p + 1, n, raising, busy)

\* core.py:296-310  get_pages returns n page URLs.  No page: the chapter is
\* given up (return).  Otherwise one task per page, then gather; gather has
\* no return_exceptions, so the first exception of a task reaches the
\* awaiting coroutine (core.py:335) and the sibling tasks keep running.
GetPagesReturns ==
    /\ pc = "getpages"
    /\ \E n \in 0..MaxPages, raising \in SUBSET PageIds :
        /\ raising \subseteq 1..n
        /\ IF PagesEmpty(n)
           THEN /\ raising = {}
                /\ chap' = [chap EXCEPT ![pos].got = TRUE, ![pos].npages = n,
                                        ![pos].st = "Failed"]
                /\ task' = task
                /\ pos' = pos + 1
                /\ pc' = "loop"
           ELSE /\ LET started == StartTasks(1, n, raising, InFlight)
                   IN  task' = [task EXCEPT ![pos] =
                                   [p \in PageIds |-> IF p <= n THEN started[p] ELSE "none"]]
                /\ IF raising = {}
                   THEN /\ chap' = [chap EXCEPT ![pos].got = TRUE, ![pos].npages = n,
                                                ![pos].started = n]
                        /\ pos' = pos
                        /\ pc' = "gather"
                   ELSE /\ chap' = [ChapterFailed(pos) EXCEPT ![pos].got = TRUE,
                                        ![pos].npages = n, ![pos].started = n]
                        /\ pos' = pos + 1
                        /\ pc' = "loop"
    /\ UNCHANGED <<chapters, fmt, workers, history, dirExists, dirFiles, archive>>
    /\ UNCHANGED notRun

(***************************************************************************)
(* The page download tasks.  extractor.download_image is awaited through   *)
(* asyncio.gather (core.py:308-310); each task holds one connection of the *)
(* session's connector while its request is in flight.                     *)
(***************************************************************************)
\* A waiting task gets a connection and its request goes out; the waiters
\* of a chapter are served in page order.
TaskAcquires(i, p) ==
    /\ pc \in {"loop", "getpages", "gather", "package"}
    /\ task[i][p] = "waiting"
    /\ \A p2 \in PageIds : p2 < p => task[i][p2] # "waiting"
    /\ CanAcquire(InFlight, ConnectorLimit(workers))
    /\ task' = [task EXCEPT ![i][p] = "inflight"]
    /\ UNCHANGED <<chapters, fmt, workers, history, pos, pc, chap,
                   dirExists, dirFiles, archive>>
    /\ UNCHANGED notRun

\* The page file of page p written by the task of chapter i replaces any
\* older file of that page.
WriteFile(files, p, i) == {f \in files : f[1] # p} \cup {<<p, i>>}

\* A task ends: Success (the page file is on disk) or Failure.
TaskReturns(i, p) ==
    /\ pc \in {"loop", "getpages", "gather", "package"}
    /\ task[i][p] = "inflight"
    /\ \E ok \in BOOLEAN :
        IF ok /\ dirExists[PathOf(i)]
        THEN /\ task' = [task EXCEPT ![i][p] = "ok"]
             /\ chap' = [chap EXCEPT ![i].nOk = @ + 1]
             /\ dirFiles' = [dirFiles EXCEPT ![PathOf(i)] = WriteFile(@, p, i)]
        ELSE /\ task' = [task EXCEPT ![i][p] = "fail"]
             /\ chap' = [chap EXCEPT ![i].nFail = @ + 1]
             /\ dirFiles' = dirFiles
    /\ UNCHANGED <<chapters, fmt, workers, history, pos, pc, dirExists, archive>>
    /\ UNCHANGED notRun

GatherComplete(i) == \A p \in PageIds : task[i][p] \in {"none", "ok", "fail"}

\* core.py:329-333  if success: self.db.mark_completed(...)
Completed(i) == [chap EXCEPT ![i].st = "Completed", ![i].marked = TRUE]

\* core.py:310-330  gather has returned; the results are not looked at.
\* pdf and cbz go on to the packaging call; any other format is a success.
GatherReturns ==
    /\ pc = "gather"
    /\ GatherComplete(pos)
    /\ IF NeedsPackaging(fmt)
       THEN /\ chap' = [chap EXCEPT ![pos].st = "Downloaded", ![pos].pack = "called"]
            /\ pc' = "package"
            /\ UNCHANGED <<pos, history>>
       ELSE /\ IF Success(fmt, FALSE)
               THEN /\ history' = MarkCompleted(history, chapters[pos])
                    /\ chap' = Completed(pos)
               ELSE /\ history' = history
                    /\ chap' = [chap EXCEPT ![pos].st = "Failed"]
            /\ pos' = pos + 1
            /\ pc' = "loop"
    /\ UNCHANGED <<chapters, fmt, workers, task, dirExists, dirFiles, archive>>
    /\ UNCHANGED notRun

PagesOf(files) == {f[1] : f \in files}

\* archive.py:8-30  create_cbz_archive: the zip is opened for writing (an
\* existing file is truncated), every file of the folder is added, then the
\* ComicInfo.xml entry; any exception gives False.
CreateCbz(files, i, ioOk) ==
    IF ioOk
    THEN [result |-> TRUE,
          arch |-> [exists |-> TRUE, by |-> i, pages |-> PagesOf(files), meta |-> TRUE]]
    ELSE [result |-> FALSE,
          arch |-> [exists |-> TRUE, by |-> i, pages |-> {}, meta |-> FALSE]]

\* archive.py:32-65  create_pdf_document: False when there is no image,
\* before the output file is opened; False on any exception afterwards.
CreatePdf(files, old, i, ioOk) ==
    IF files = {} THEN [result |-> FALSE, arch |-> old]
    ELSE IF ioOk
    THEN [result |-> TRUE,
          arch |-> [exists |-> TRUE, by |-> i, pages |-> PagesOf(files), meta |-> FALSE]]
    ELSE [result |-> FALSE,
          arch |-> [exists |-> TRUE, by |-> i, pages |-> {}, meta |-> FALSE]]

\* The folder removed whatever the packager returned.
RemovesFolderAlways(packed) == TRUE

\* core.py:317-318, 323-324  if await ...create_..., ...): shutil.rmtree(chapter_folder)
RemovesFolder(packed) == packed

\* core.py:315-337  the packaging call returns; on True the chapter folder is
\* removed (shutil.rmtree may raise, which the except catches) and the chapter
\* is marked; on False nothing more happens.
PackageReturns ==
    /\ pc = "package"
    /\ \E ioOk \in BOOLEAN, rmOk \in BOOLEAN :
        LET q == PathOf(pos)
            r == IF fmt = "pdf" THEN CreatePdf(dirFiles[q], archive[q], pos, ioOk)
                                ELSE CreateCbz(dirFiles[q], pos, ioOk)
            returned == IF r.result THEN "true" ELSE "false"
        IN  /\ archive' = [archive EXCEPT ![q] = r.arch]
            /\ IF RemovesFolder(r.result)
               THEN IF rmOk
                    THEN /\ dirExists' = [dirExists EXCEPT ![q] = FALSE]
                         /\ dirFiles' = [dirFiles EXCEPT ![q] = {}]
                         /\ IF Success(fmt, r.result)
                            THEN /\ history' = MarkCompleted(history, chapters[pos])
                                 /\ chap' = [Completed(pos) EXCEPT ![pos].pack = returned]
                            ELSE /\ history' = history
                                 /\ chap' = [chap EXCEPT ![pos].st = "Failed",
                                                         ![pos].pack = returned]
                    ELSE /\ chap' = [ChapterFailed(pos) EXCEPT ![pos].pack = returned]
                         /\ UNCHANGED <<dirExists, dirFiles, history>>
               ELSE /\ (rmOk = TRUE)
                    /\ IF Success(fmt, r.result)
                       THEN /\ history' = MarkCompleted(history, chapters[pos])
                            /\ chap' = [Completed(pos) EXCEPT ![pos].pack = returned]
                       ELSE /\ history' = history
                            /\ chap' = [chap EXCEPT ![pos].st = "Failed",
                                                    ![pos].pack = returned]
                    /\ UNCHANGED <<dirExists, dirFiles>>
    /\ pos' = pos + 1
    /\ pc' = "loop"
    /\ UNCHANGED <<chapters, fmt, workers, task>>
    /\ UNCHANGED notRun

\* core.py:252, 261  the list is exhausted: the session and the history are
\* closed and asyncio.run cancels what is still scheduled.
Finish ==
    /\ pc = "loop" /\ pos > Len(chapters)
    /\ pc' = "done"
    /\ task' = CancelAll(task)
    /\ UNCHANGED <<chapters, fmt, workers, history, pos, chap, dirExists, dirFiles, archive>>
    /\ UNCHANGED notRun

Next ==
    \/ SkipChapter
    \/ BeginChapter
    \/ GetPagesRaises
    \/ GetPagesReturns
    \/ \E i \in ChapIds, p \in PageIds : TaskAcquires(i, p)
    \/ \E i \in ChapIds, p \in PageIds : TaskReturns(i, p)
    \/ GatherReturns
    \/ PackageReturns
    \/ Finish

Spec == Init /\ [][Next]_vars

(***************************************************************************)
(* Properties of the run, checked under Spec.                              *)
(***************************************************************************)
ListIds == DOMAIN chap

\* What was on disk at chapter i's output path when the loop reached it is
\* still there, as it was.
OutputUnchanged(i) ==
    LET q == PathOf(i)
        sn == chap[i].snap
    IN  /\ sn.dirExists => (dirExists[q] /\ dirFiles[q] = sn.files)
        /\ sn.arch.exists => archive[q] = sn.arch

\* C1: a chapter that the HistoryStore holds as completed when the loop reaches
\* it gets no getPages call, no page download, no directory creation, no
\* packaging and no markCompleted, and the archive or folder at its output path
\* is left as it was.
DedupNoWork ==
    \A i \in ListIds :
        chap[i].doneAtReach =>
            /\ chap[i].getPages = 0
            /\ chap[i].started = 0
            /\ ~chap[i].mkdir
            /\ chap[i].pack = "none"
            /\ ~chap[i].marked
            /\ OutputUnchanged(i)

\* C2: markCompleted is called for a chapter only after its packaging returned
\* true (pdf, cbz) or, for the folder format, after all its page downloads have
\* ended; never for a chapter whose packaging returned false or in whose
\* processing an exception was raised.
MarkOnlyAfterSuccess ==
    \A i \in ListIds :
        chap[i].marked =>
            /\ ~chap[i].exc
            /\ chapters[i] \in history
            /\ fmt \in {"pdf", "cbz"} => chap[i].pack = "true"
            /\ fmt = "folder" =>
                   /\ chap[i].pack = "none"
                   /\ chap[i].npages > 0
                   /\ chap[i].nOk + chap[i].nFail = chap[i].npages

MarkedAfterPackaging ==
    \E i \in ListIds : chap[i].marked /\ fmt \in {"pdf", "cbz"} /\ chap[i].pack = "true"

\* C3: a failure raised while a chapter is processed (directory creation,
\* page-list retrieval, page download, packaging) is caught inside that
\* chapter's processing: the run is never aborted by it, and when the run ends
\* every chapter of the list has been processed.
FailureIsolation ==
    /\ pc # "crashed"
    /\ pc = "done" => \A i \in ListIds : chap[i].st # "Pending"

\* C4: a chapter with a non-empty page list whose page downloads all returned
\* Failure is not marked completed, whatever the output format.
AllFailedNotCompleted ==
    \A i \in ListIds :
        (chap[i].npages > 0 /\ chap[i].nFail = chap[i].npages) =>
            (~chap[i].marked /\ chapters[i] \notin history)

\* C5: a chapter for which getPages returned an empty list is failed: no page
\* download is started, no packaging is attempted, it is not marked completed,
\* no exception leaves its processing, and the loop goes on to the next chapter.
EmptyPageListFails ==
    \A i \in ListIds :
        (chap[i].got /\ chap[i].npages = 0) =>
            /\ chap[i].st = "Failed"
            /\ chap[i].started = 0
            /\ \A p \in PageIds : task[i][p] = "none"
            /\ chap[i].pack = "none"
            /\ ~chap[i].marked
            /\ ~chap[i].exc
            /\ pos > i
            /\ (pc \in {"done", "crashed"} /\ i < Len(chapters)) => chap[i + 1].snap.taken

EmptyThenNextChapter ==
    \E i \in ListIds :
        /\ chap[i].got /\ chap[i].npages = 0
        /\ i < Len(chapters)
        /\ chap[i + 1].st \in {"Completed", "Failed", "Skipped"}

\* C8 as stated: the number of page downloads with a request in flight is at
\* most workerCount, in every state.
WorkerBound == InFlight <= workers

\* C8, amended: for workerCount >= 1 the number of page downloads with a
\* request in flight is at most workerCount, although every page of the
\* chapter has its download task as soon as the page list is back.
WorkerBoundPositive ==
    /\ workers >= 1 => InFlight <= workers
    /\ \A i \in ListIds : \A p \in PageIds :
           (pc = "gather" /\ pos = i /\ p <= chap[i].npages) => task[i][p] # "none"

WorkerBoundBites ==
    /\ workers >= 1
    /\ InFlight = workers
    /\ \E i \in ListIds : \E p \in PageIds : task[i][p] = "waiting"

\* C9: no page fetch of a later chapter is in flight while a page download of
\* an earlier chapter of the list is still running, and none while the
\* packaging of an earlier chapter runs.
NotPipelined ==
    \A i \in ListIds : \A j \in ListIds :
        i < j =>
            ~(/\ \E p \in PageIds : task[j][p] = "inflight"
              /\ \/ Running(i) # {}
                 \/ (pc = "package" /\ pos = i))

(***************************************************************************)
(* BaseExtractor.download_image (src/yomi/extractors/base.py:39-77).       *)
(*                                                                         *)
(* A URL is its parsed form; a header value is the sequence of the pieces  *)
(* it is formatted from, the empty sequence being the empty string.        *)
(***************************************************************************)
NoneHint   == <<"None">>
ChapterUrl == <<"https", "://", "site.example", "/", "ch1">>
SiteRoot   == <<"https", "://", "site.example", "/">>
Hints      == {NoneHint, <<>>, ChapterUrl, SiteRoot}

CdnImage  == [scheme |-> "https", netloc |-> <<"cdn.example">>, path |-> "/1.jpg"]
SiteImage == [scheme |-> "https", netloc |-> <<"site.example">>, path |-> "/1.jpg"]
BadImage  == [scheme |-> "https", netloc |-> <<"[", "cdn.example">>, path |-> "/1.jpg"]
ImageUrls == {CdnImage, SiteImage, BadImage}

Pieces(q) == {q[k] : k \in DOMAIN q}

\* urlparse raises ValueError on a netloc with an unbalanced square bracket.
UrlParses(u) == ("[" \in Pieces(u.netloc)) <=> ("]" \in Pieces(u.netloc))

\* base.py:46  f"{parsed_uri.scheme}://{parsed_uri.netloc}/"
RootDomain(u) == <<u.scheme, "://">> \o u.netloc \o <<"/">>

\* base.py:50  source_chapter_url if source_chapter_url else ""
HintOrEmpty(h) == IF h # NoneHint /\ h # <<>> THEN h ELSE <<>>

\* The strategy list without its last entry.
StrategiesWithoutRoot(u, h) == <<HintOrEmpty(h), <<>>>>

\* base.py:49-53  the Referer of each strategy, in the order they are tried
Strategies(u, h) == <<HintOrEmpty(h), <<>>, RootDomain(u)>>

\* The acceptance test without the check of the file on disk.
AcceptedUnverified(status, bodyLen, written, diskSize) ==
    status = 200 /\ bodyLen > 0 /\ written

\* base.py:62-72  return True: status 200, a non-empty body, the body written
\* and a file of more than 0 bytes on disk
Accepted(status, bodyLen, written, diskSize) ==
    status = 200 /\ bodyLen > 0 /\ written /\ diskSize > 0

\* A try block that ends after the request.
CaughtRequestOnly(where) == where = "request"

\* base.py:56-75  the try block holds the request and the write; except
\* Exception: continue
Caught(where) == where \in {"request", "write"}

StatusCodes == {200, 403}
BodyLens    == {0, 4}

InitFetch ==
    /\ f_url \in ImageUrls
    /\ f_hint \in Hints
    /\ f_k = 1
    /\ f_pc = "call"
    /\ f_log = <<>>
    /\ f_disk \in {0, 4}
    /\ RunIdle
    /\ OrderIdle
    /\ FilterIdle
    /\ ResolveIdle
    /\ CbzIdle
    /\ PdfIdle
    /\ ResumeIdle

\* base.py:44-53  sanitise and parse the URL, build the strategies
FetchPrepare ==
    /\ f_pc = "call"
    /\ f_pc' = IF UrlParses(f_url) THEN "loop" ELSE "raised"
    /\ UNCHANGED <<f_url, f_hint, f_k, f_log, f_disk>>
    /\ UNCHANGED notFetch

\* After attempt k was not accepted: the next strategy, or return False.
FetchAdvance(k) == IF k < Len(Strategies(f_url, f_hint)) THEN "loop" ELSE "Failure"

\* base.py:55-75  one attempt; the request raises
AttemptRaises ==
    /\ f_pc = "loop"
    /\ f_log' = Append(f_log, [referer |-> Strategies(f_url, f_hint)[f_k],
                               outcome |-> "request raised",
                               status |-> 0, bodyLen |-> 0, written |-> FALSE,
                               diskSize |-> f_disk])
    /\ f_pc' = IF Caught("request") THEN FetchAdvance(f_k) ELSE "raised"
    /\ f_k' = f_k + 1
    /\ UNCHANGED <<f_url, f_hint, f_disk>>
    /\ UNCHANGED notFetch

\* base.py:55-75  one attempt; the request returns a response
AttemptResponds ==
    /\ f_pc = "loop"
    /\ \E status \in StatusCodes, bodyLen \in BodyLens, wr \in {"raises", "empty", "full"} :
        LET writes  == status = 200 /\ bodyLen > 0
            written == writes /\ wr # "raises"
            size    == IF ~writes THEN f_disk
                       ELSE IF wr = "full" THEN bodyLen ELSE 0
            ok      == Accepted(status, bodyLen, written, size)
        IN  /\ writes \/ wr = "full"
            /\ f_disk' = size
            /\ f_log' = Append(f_log, [referer |-> Strategies(f_url, f_hint)[f_k],
                                       outcome |-> IF ~writes THEN "rejected"
                                                   ELSE IF wr = "raises" THEN "write raised"
                                                   ELSE "written",
                                       status |-> status, bodyLen |-> bodyLen,
                                       written |-> written, diskSize |-> size])
            /\ f_pc' = IF ok THEN "Success"
                       ELSE IF writes /\ wr = "raises" /\ ~Caught("write") THEN "raised"
                       ELSE FetchAdvance(f_k)
    /\ f_k' = f_k + 1
    /\ UNCHANGED <<f_url, f_hint>>
    /\ UNCHANGED notFetch

NextFetch == FetchPrepare \/ AttemptRaises \/ AttemptResponds

SpecFetch == InitFetch /\ [][NextFetch]_vars

(***************************************************************************)
(* Properties of download_image, checked under SpecFetch.                  *)
(***************************************************************************)
Attempts == DOMAIN f_log

NonEmpty200(k) == f_log[k].status = 200 /\ f_log[k].bodyLen > 0

Stored(k) == NonEmpty200(k) /\ f_log[k].written /\ f_log[k].diskSize > 0

\* C6: Failure is returned only after exactly 3 attempts whose Referer values
\* are pairwise distinct, and Success is returned at the first attempt that
\* yields a non-empty 200 response, no attempt being made after it.
ThreeDistinctStrategies ==
    /\ f_pc = "Failure" =>
           /\ Len(f_log) = 3
           /\ \A j \in Attempts : \A k \in Attempts :
                  j # k => f_log[j].referer # f_log[k].referer
    /\ \A k \in Attempts :
           NonEmpty200(k) => (k = Len(f_log) /\ f_pc = "Success")

\* C6, amended: Failure is returned only after exactly 3 attempts, whose
\* Referer values are, in this order, the referer hint (empty when the hint is
\* absent or empty), empty, and scheme and host of the asset URL: pairwise
\* distinct when the hint is present, non-empty and not that root.  Success is
\* returned at the first attempt that yields a non-empty 200 response whose
\* body is written to a file of more than 0 bytes, and no attempt follows it.
RetrySchedule ==
    /\ f_pc = "Failure" =>
           /\ Len(f_log) = 3
           /\ f_log[1].referer = (IF f_hint \in {NoneHint, <<>>} THEN <<>> ELSE f_hint)
           /\ f_log[2].referer = <<>>
           /\ f_log[3].referer = <<f_url.scheme, "://">> \o f_url.netloc \o <<"/">>
           /\ (f_hint \notin {NoneHint, <<>>, f_log[3].referer}) =>
                  \A j \in Attempts : \A k \in Attempts :
                      j # k => f_log[j].referer # f_log[k].referer
    /\ \A k \in Attempts :
           Stored(k) => (k = Len(f_log) /\ f_pc = "Success")
    /\ f_pc = "Success" => Stored(Len(f_log))

FailureAfterThreeReferers ==
    /\ f_pc = "Failure"
    /\ f_hint = ChapterUrl
    /\ Len(f_log) = 3
    /\ f_log[1].referer = ChapterUrl
    /\ f_log[3].referer # f_log[1].referer

\* C7: Success is returned if and only if some attempt received status 200
\* with a non-empty body and left a file of more than 0 bytes on disk; every
\* other outcome of an attempt leads to the next strategy (to Failure after
\* the last one), and no attempt makes the call raise.
AcceptanceRule ==
    /\ f_pc = "Success" <=> \E k \in Attempts : Stored(k)
    /\ \A k \in Attempts : Stored(k) => k = Len(f_log)
    /\ f_pc = "Failure" => Len(f_log) = 3
    /\ f_pc = "loop" => Len(f_log) < 3 /\ f_k = Len(f_log) + 1
    /\ f_pc = "raised" => f_log = <<>>

SuccessAfterRejections ==
    /\ f_pc = "Success"
    /\ Len(f_log) = 3
    /\ f_log[1].outcome = "write raised"
    /\ f_log[2].outcome = "written" /\ f_log[2].diskSize = 0

(***************************************************************************)
(* The page download as the orchestrator starts it (core.py:301-308): the  *)
(* call of download_image for a page of the chapter at ChapterUrl.         *)
(***************************************************************************)
\* core.py:308  extractor.download_image(img_url, save_path): the call has
\* no third argument, so source_chapter_url is its default, None (base.py:39)
RefererArg(chapter_url) == NoneHint

InitReferer ==
    /\ f_url \in ImageUrls
    /\ f_hint = RefererArg(ChapterUrl)
    /\ f_k = 1
    /\ f_pc = "call"
    /\ f_log = <<>>
    /\ f_disk \in {0, 4}
    /\ RunIdle
    /\ OrderIdle
    /\ FilterIdle
    /\ ResolveIdle
    /\ CbzIdle
    /\ PdfIdle
    /\ ResumeIdle

SpecReferer == InitReferer /\ [][NextFetch]_vars

\* C23: the download of a page of the chapter gets the URL of that chapter
\* as referer hint, and its first attempt carries Referer = chapter URL.
RefererIsChapterUrl ==
    Len(f_log) >= 1 => (f_hint = ChapterUrl /\ f_log[1].referer = ChapterUrl)

(***************************************************************************)
(* Page file names (core.py:301-308) and the sorted enumeration of the     *)
(* chapter folder by the packager (archive.py:14-20).                      *)
(*                                                                         *)
(* A file name is a sequence of characters.  The chapter has o_n pages;    *)
(* the specification follows the files of a sample of its pages, which     *)
(* land in the folder in any order, and the entries the archive gets for   *)
(* them.                                                                   *)
(***************************************************************************)
\* core.py:306  f"{idx+1:03d}"
PadWidth == 3

\* A chapter long enough for a page number of more than PadWidth digits.
LongChapter == 1000

PageCounts == {2, 12, 101, LongChapter}

SamplePages(n) == {p \in {1, 2, 10, 101, n} : p <= n}

DigitChars == <<"0", "1", "2", "3", "4", "5", "6", "7", "8", "9">>

RECURSIVE Digits(_)
Digits(n) ==
    IF n < 10 THEN <<DigitChars[n + 1]>>
    ELSE Digits(n \div 10) \o <<DigitChars[(n % 10) + 1]>>

\* The padding put after the digits.
RECURSIVE ZeroPadRight(_, _)
ZeroPadRight(ds, w) == IF Len(ds) >= w THEN ds ELSE ZeroPadRight(ds \o <<"0">>, w)

\* core.py:306  the format specification 03d
RECURSIVE ZeroPad(_, _)
ZeroPad(ds, w) == IF Len(ds) >= w THEN ds ELSE ZeroPad(<<"0">> \o ds, w)

\* The page URLs differ in the extension marker they hold.
UrlKinds == {<<"/img/", ".jpg">>, <<"/img/", ".PNG">>, <<"/img/", ".webp", "?src=", ".png">>,
             <<"/img/", ".webp">>, <<"/img/">>}

\* str.lower() on the pieces that have upper-case letters
Lower(piece) == IF piece = ".PNG" THEN ".png" ELSE piece

LowerPieces(u) == {Lower(u[k]) : k \in DOMAIN u}

\* core.py:302-304
ExtOf(u) ==
    IF ".png" \in LowerPieces(u) THEN <<"p", "n", "g">>
    ELSE IF ".webp" \in LowerPieces(u) THEN <<"w", "e", "b", "p">>
    ELSE <<"j", "p", "g">>

\* core.py:306  fname = f"{idx+1:03d}.{ext}", idx counted from 0
FileName(idx, u) == ZeroPad(Digits(idx + 1), PadWidth) \o <<".">> \o ExtOf(u)

\* Code points of the characters of a file name.
CharCode(c) ==
    CASE c = "." -> 46
      [] c = "0" -> 48 [] c = "1" -> 49 [] c = "2" -> 50 [] c = "3" -> 51
      [] c = "4" -> 52 [] c = "5" -> 53 [] c = "6" -> 54 [] c = "7" -> 55
      [] c = "8" -> 56 [] c = "9" -> 57
      [] c = "b" -> 98 [] c = "e" -> 101 [] c = "g" -> 103 [] c = "j" -> 106
      [] c = "n" -> 110 [] c = "p" -> 112 [] c = "w" -> 119
      [] c = "B" -> 66 [] c = "E" -> 69 [] c = "P" -> 80 [] c = "W" -> 87
      [] c = "t" -> 116 [] c = "x" -> 120

\* Python's order of str: by code point, a proper prefix first.
RECURSIVE LexLess(_, _)
LexLess(a, b) ==
    IF b = <<>> THEN FALSE
    ELSE IF a = <<>> THEN TRUE
    ELSE IF Head(a) = Head(b) THEN LexLess(Tail(a), Tail(b))
    ELSE CharCode(Head(a)) < CharCode(Head(b))

\* archive.py:17  sorted(files): entries are [name, page] records
RECURSIVE SortedFiles(_)
SortedFiles(files) ==
    IF files = <<>> THEN <<>>
    ELSE LET k == CHOOSE j \in DOMAIN files :
                     \A m \in DOMAIN files : ~LexLess(files[m].name, files[j].name)
         IN  <<files[k]>> \o SortedFiles(SubSeq(files, 1, k - 1) \o
                                         SubSeq(files, k + 1, Len(files)))

InitOrder ==
    /\ o_n \in PageCounts
    /\ \E odd \in UrlKinds, even \in UrlKinds :
           o_ext = [p \in SamplePages(o_n) |-> IF p % 2 = 1 THEN odd ELSE even]
    /\ o_done = <<>>
    /\ o_pc = "gather"
    /\ o_entries = <<>>
    /\ RunIdle
    /\ FetchIdle
    /\ FilterIdle
    /\ ResolveIdle
    /\ CbzIdle
    /\ PdfIdle
    /\ ResumeIdle

Landed == {o_done[k].page : k \in DOMAIN o_done}

\* core.py:301-310  the download of page p ends and its file is in the folder
PageLands(p) ==
    /\ o_pc = "gather"
    /\ p \in SamplePages(o_n) \ Landed
    /\ o_done' = Append(o_done, [name |-> FileName(p - 1, o_ext[p]), page |-> p])
    /\ UNCHANGED <<o_n, o_ext, o_pc, o_entries>>
    /\ UNCHANGED notOrder

\* core.py:310-323, archive.py:14-20  every page has landed; the folder is
\* enumerated and every file written to the archive
PackageFolder ==
    /\ o_pc = "gather"
    /\ Landed = SamplePages(o_n)
    /\ o_entries' = SortedFiles(o_done)
    /\ o_pc' = "packaged"
    /\ UNCHANGED <<o_n, o_ext, o_done>>
    /\ UNCHANGED notOrder

NextOrder == (\E p \in SamplePages(o_n) : PageLands(p)) \/ PackageFolder

SpecOrder == InitOrder /\ [][NextOrder]_vars

(***************************************************************************)
(* Properties of the packaged order, checked under SpecOrder.              *)
(***************************************************************************)
\* C10: whatever the order in which the page downloads of a chapter ended,
\* the archive lists the pages by ascending page index.
ArchiveInPageOrder ==
    o_pc = "packaged" =>
        /\ Len(o_entries) = Cardinality(SamplePages(o_n))
        /\ \A j \in DOMAIN o_entries : \A k \in DOMAIN o_entries :
               j < k => o_entries[j].page < o_entries[k].page

(***************************************************************************)
(* YomiCore._filter_chapters (src/yomi/core.py:263-280).                   *)
(*                                                                         *)
(* A string is a sequence of characters.  A number is the pair of its      *)
(* digits read as one integer and the count of digits after the point, so  *)
(* that 1.5 is [num |-> 15, scale |-> 1]; the numerals here are short, and *)
(* their floats compare as the decimals do.                                *)
(***************************************************************************)
\* the longest range string the specification draws
MaxRangeLen == 5

RangeChars == {"1", "2", ".", "-", "a"}

\* <<>> is the absent (None) or empty --range
RangeStrings == UNION {[1..n -> RangeChars] : n \in 0..MaxRangeLen}

\* the chapter list the extractor returned; titles "c2", "c", "c1.5", "2v1"
Listing == << <<"c", "2">>, <<"c">>, <<"c", "1", ".", "5">>, <<"2", "v", "1">> >>

IsDigit(c) == \E d \in DOMAIN DigitChars : DigitChars[d] = c

DigitValue(c) == (CHOOSE d \in DOMAIN DigitChars : DigitChars[d] = c) - 1

\* core.py:266  range_str.split('-')
RECURSIVE Split(_)
Split(s) ==
    IF \A k \in DOMAIN s : s[k] # "-" THEN <<s>>
    ELSE LET k == CHOOSE j \in DOMAIN s :
                      s[j] = "-" /\ \A m \in 1..(j - 1) : s[m] # "-"
         IN  <<SubSeq(s, 1, k - 1)>> \o Split(SubSeq(s, k + 1, Len(s)))

\* core.py:267-268  float(x) raises ValueError unless x is a numeral: digits
\* with at most one point and at least one digit ("1", "1.5", "1.", ".5")
FloatParses(s) ==
    /\ \A k \in DOMAIN s : IsDigit(s[k]) \/ s[k] = "."
    /\ Cardinality({k \in DOMAIN s : s[k] = "."}) <= 1
    /\ \E k \in DOMAIN s : IsDigit(s[k])

RECURSIVE DigitsValue(_)
DigitsValue(ds) ==
    IF ds = <<>> THEN 0
    ELSE 10 * DigitsValue(SubSeq(ds, 1, Len(ds) - 1)) + DigitValue(ds[Len(ds)])

\* core.py:267, 275  float(x) of a numeral
Float(s) ==
    LET pts == {k \in DOMAIN s : s[k] = "."}
    IN  [num   |-> DigitsValue(SelectSeq(s, IsDigit)),
         scale |-> IF pts = {} THEN 0 ELSE Len(s) - (CHOOSE k \in pts : TRUE)]

RECURSIVE Pow10(_)
Pow10(k) == IF k = 0 THEN 1 ELSE 10 * Pow10(k - 1)

\* core.py:276  x <= y on floats
Leq(x, y) == x.num * Pow10(y.scale) <= y.num * Pow10(x.scale)

\* the end of the run of digits that starts at position i
RECURSIVE DigitRunEnd(_, _)
DigitRunEnd(t, i) ==
    IF i < Len(t) /\ IsDigit(t[i + 1]) THEN DigitRunEnd(t, i + 1) ELSE i

\* core.py:273  re.search(r'(\d+(\.\d+)?)', title): the leftmost match, its
\* digits and its optional fraction taken greedily; <<>> is no match
ReSearch(t) ==
    IF \A k \in DOMAIN t : ~IsDigit(t[k]) THEN <<>>
    ELSE LET i == CHOOSE j \in DOMAIN t :
                      IsDigit(t[j]) /\ \A m \in 1..(j - 1) : ~IsDigit(t[m])
             j == DigitRunEnd(t, i)
             k == IF j + 2 <= Len(t) /\ t[j + 1] = "." /\ IsDigit(t[j + 2])
                  THEN DigitRunEnd(t, j + 2) ELSE j
         IN  SubSeq(t, i, k)

\* core.py:267-268  the conversions of the range raise
RangeRaises(r) ==
    LET start_end == Split(r)
    IN  \/ ~FloatParses(start_end[1])
        \/ Len(start_end) > 1 /\ ~FloatParses(start_end[2])

\* core.py:267
RangeStart(r) == Float(Split(r)[1])

\* core.py:268
RangeEnd(r) == IF Len(Split(r)) > 1 THEN Float(Split(r)[2]) ELSE RangeStart(r)

KeepsUnnumbered(r, t) ==
    LET match == ReSearch(t)
    IN  match = <<>> \/
        (Leq(RangeStart(r), Float(match)) /\ Leq(Float(match), RangeEnd(r)))

\* core.py:273-277  the chapter is appended to filtered
Keeps(r, t) ==
    LET match == ReSearch(t)
    IN  match # <<>> /\
        Leq(RangeStart(r), Float(match)) /\ Leq(Float(match), RangeEnd(r))

\* core.py:270-278
Filtered(chs, r) == SelectSeq(chs, LAMBDA t : Keeps(r, t))

InitFilter ==
    /\ fl_chapters \in SubLists(Listing)
    /\ fl_range \in RangeStrings
    /\ fl_pc = "call"
    /\ fl_result = <<>>
    /\ RunIdle
    /\ FetchIdle
    /\ OrderIdle
    /\ ResolveIdle
    /\ CbzIdle
    /\ PdfIdle
    /\ ResumeIdle

\* core.py:264  no range is active
FilterInactive ==
    /\ fl_pc = "call"
    /\ fl_range = <<>>
    /\ fl_result' = fl_chapters
    /\ fl_pc' = "returned"
    /\ UNCHANGED <<fl_chapters, fl_range>>
    /\ UNCHANGED notFilter

\* core.py:265-268, 279-280  a conversion raises and the bare except returns
\* the list it was given
FilterRaises ==
    /\ fl_pc = "call"
    /\ fl_range # <<>>
    /\ RangeRaises(fl_range)
    /\ fl_result' = fl_chapters
    /\ fl_pc' = "returned"
    /\ UNCHANGED <<fl_chapters, fl_range>>
    /\ UNCHANGED notFilter

\* core.py:265-278  the range converts and the list is filtered
FilterReturns ==
    /\ fl_pc = "call"
    /\ fl_range # <<>>
    /\ ~RangeRaises(fl_range)
    /\ fl_result' = Filtered(fl_chapters, fl_range)
    /\ fl_pc' = "returned"
    /\ UNCHANGED <<fl_chapters, fl_range>>
    /\ UNCHANGED notFilter

NextFilter == FilterInactive \/ FilterRaises \/ FilterReturns

SpecFilter == InitFilter /\ [][NextFilter]_vars

(***************************************************************************)
(* Properties of the range filter, checked under SpecFilter.               *)
(***************************************************************************)
\* a decimal number, as a range bound is written
IsDecimal(s) ==
    /\ s # <<>>
    /\ \A k \in DOMAIN s : s[k] = "." \/ IsDigit(s[k])
    /\ \A j \in DOMAIN s : \A k \in DOMAIN s : (s[j] = "." /\ s[k] = ".") => j = k
    /\ s # <<".">>

Dashes(r) == {k \in DOMAIN r : r[k] = "-"}

\* the range string is "A" or "A-B" with A and B decimal numbers
WellFormed(r) ==
    \/ IsDecimal(r)
    \/ \E k \in Dashes(r) :
           IsDecimal(SubSeq(r, 1, k - 1)) /\ IsDecimal(SubSeq(r, k + 1, Len(r)))

LowerBound(r) ==
    IF Dashes(r) = {} THEN Float(r)
    ELSE Float(SubSeq(r, 1, (CHOOSE k \in Dashes(r) : TRUE) - 1))

UpperBound(r) ==
    IF Dashes(r) = {} THEN Float(r)
    ELSE Float(SubSeq(r, (CHOOSE k \in Dashes(r) : TRUE) + 1, Len(r)))

\* digits, or digits, a point and digits
IsNumber(s) ==
    /\ s # <<>>
    /\ IsDigit(s[1]) /\ IsDigit(s[Len(s)])
    /\ \A k \in DOMAIN s : s[k] = "." \/ IsDigit(s[k])
    /\ Cardinality({k \in DOMAIN s : s[k] = "."}) <= 1

HasNumber(t) == \E k \in DOMAIN t : IsDigit(t[k])

\* the first decimal number of a title: the longest number that starts at
\* the first digit of the title
FirstNumber(t) ==
    LET i    == CHOOSE j \in DOMAIN t : IsDigit(t[j]) /\ \A m \in 1..(j - 1) : ~IsDigit(t[m])
        ends == {k \in i..Len(t) : IsNumber(SubSeq(t, i, k))}
        last == CHOOSE k \in ends : \A m \in ends : m <= k
    IN  Float(SubSeq(t, i, last))

InRange(r, t) ==
    /\ HasNumber(t)
    /\ Leq(LowerBound(r), FirstNumber(t))
    /\ Leq(FirstNumber(t), UpperBound(r))

\* C11: for a well-formed range "A-B" or "A" (then B = A) the filter returns
\* exactly the chapters whose title holds a decimal number and whose first
\* number n has A <= n <= B, in the order of the list; a chapter whose title
\* holds no number is left out.
RangeFilterExact ==
    (fl_pc = "returned" /\ WellFormed(fl_range)) =>
        fl_result = SelectSeq(fl_chapters, LAMBDA t : InRange(fl_range, t))

\* a range "A-B" over a list with a title without number and a title out of
\* range has kept two chapters and dropped both of those
RangeKeepsSome ==
    /\ fl_pc = "returned"
    /\ WellFormed(fl_range) /\ Dashes(fl_range) # {}
    /\ Len(fl_result) >= 2
    /\ \E k \in DOMAIN fl_chapters : ~HasNumber(fl_chapters[k])
    /\ \E k \in DOMAIN fl_chapters :
           HasNumber(fl_chapters[k]) /\ ~InRange(fl_range, fl_chapters[k])

\* C12: for every range string that is not "A" or "A-B" with A and B decimal
\* numbers the filter returns the list it was given.
MalformedUnfiltered ==
    (fl_pc = "returned" /\ ~WellFormed(fl_range)) => fl_result = fl_chapters

(***************************************************************************)
(* YomiCore._resolve_target, YomiCore._finalize_target and the head of     *)
(* YomiCore._download_manga_async (src/yomi/core.py:106-241).              *)
(*                                                                         *)
(* A string is a sequence of characters; "%41" is one percent-encoded "A"   *)
(* and "http" the four characters a direct URL starts with.  A             *)
(* ratio is the fraction [n, d] difflib computes as 2.0 * matches /        *)
(* length; for strings this short the floats compare as the fractions do.  *)
(***************************************************************************)
\* the longest target the specification draws
MaxInputLen == 2

InputChars == {"a", "b", "%41", " "}

HttpUrl == <<"http", "://", "a">>

Inputs == UNION {[1..n -> InputChars] : n \in 0..MaxInputLen} \cup {HttpUrl}

\* core.py:114  input_str.startswith("http")
StartsWithHttp(s) == s # <<>> /\ s[1] = "http"

\* core.py:116  urllib.parse.unquote
Unquote(s) == [k \in 1..Len(s) |-> IF s[k] = "%41" THEN "A" ELSE s[k]]

UpperChars == <<"A", "B", "Q", "R", "S", "T", "U", "E", "P", "W">>
LowerChars == <<"a", "b", "q", "r", "s", "t", "u", "e", "p", "w">>

LowerChar(c) ==
    IF \E k \in DOMAIN UpperChars : UpperChars[k] = c
    THEN LowerChars[CHOOSE k \in DOMAIN UpperChars : UpperChars[k] = c]
    ELSE c

\* core.py:116, 125  str.lower
LowerStr(s) == [k \in 1..Len(s) |-> LowerChar(s[k])]

\* core.py:116  unquote(input_str).strip().lower()
CleanInput(s) == LowerStr(RStrip(LStrip(Unquote(s))))

\* difflib.SequenceMatcher.find_longest_match without junk: the longest
\* block a[i..i+k-1] = b[j..j+k-1], of those the one that starts earliest
\* in a, and of those the one that starts earliest in b
MatchingBlocks(a, b) ==
    {x \in (DOMAIN a) \X (DOMAIN b) \X (1..Len(a)) :
        /\ x[1] + x[3] - 1 <= Len(a)
        /\ x[2] + x[3] - 1 <= Len(b)
        /\ SubSeq(a, x[1], x[1] + x[3] - 1) = SubSeq(b, x[2], x[2] + x[3] - 1)}

LongestMatch(a, b) ==
    CHOOSE x \in MatchingBlocks(a, b) : \A y \in MatchingBlocks(a, b) :
        \/ y[3] < x[3]
        \/ y[3] = x[3] /\ x[1] < y[1]
        \/ y[3] = x[3] /\ x[1] = y[1] /\ x[2] <= y[2]

\* difflib.SequenceMatcher.get_matching_blocks: the sizes of the longest
\* match and of the matches to its left and to its right
RECURSIVE Matches(_, _)
Matches(a, b) ==
    IF MatchingBlocks(a, b) = {} THEN 0
    ELSE LET x == LongestMatch(a, b)
         IN  x[3] + Matches(SubSeq(a, 1, x[1] - 1), SubSeq(b, 1, x[2] - 1))
                  + Matches(SubSeq(a, x[1] + x[3], Len(a)), SubSeq(b, x[2] + x[3], Len(b)))

\* core.py:128-129  SequenceMatcher(None, a, b).ratio()
Ratio(a, b) ==
    IF Len(a) + Len(b) = 0 THEN [n |-> 1, d |-> 1]
    ELSE [n |-> 2 * Matches(a, b), d |-> Len(a) + Len(b)]

RatLess(x, y) == x.n * y.d < y.n * x.d

\* core.py:130  max(ratio_key, ratio_name)
RatMax(x, y) == IF RatLess(x, y) THEN y ELSE x

\* core.py:132  if score > 40
CandidateThreshold == 40

\* core.py:145  if top_score >= 80
AutoThreshold == 80

\* core.py:158  matches[:5]
MaxOptions == 5

\* one entry of sites.json: type is "absent" when the record has no "type";
\* url and pattern tell whether the record has "url" and "url_pattern"
Source(key, name, type, url, pattern) ==
    [key |-> key, name |-> name, type |-> type, url |-> url, pattern |-> pattern]

Pool ==
    << Source(<<"a", "b">>,      <<"Q">>, "static",  TRUE,  FALSE),
       Source(<<"x", "a", "b">>, <<"R">>, "dynamic", FALSE, TRUE),
       Source(<<"a">>,           <<"S">>, "dynamic", TRUE,  FALSE),
       Source(<<"a", "x">>,      <<"T">>, "absent",  TRUE,  FALSE),
       Source(<<"b">>,           <<"U">>, "static",  FALSE, FALSE),
       Source(<<"x", "b">>,      <<"A">>, "dynamic", TRUE,  TRUE),
       Source(<<"b", "x">>,      <<"B">>, "static",  TRUE,  FALSE) >>

\* self.sites_config: a dict, iterated in insertion order; the tables are
\* the runs of consecutive sources of the pool
SiteTables ==
    {SubSeq(Pool, i, j) : i \in 1..(Len(Pool) + 1), j \in 0..Len(Pool)}

Keys(table) == {table[k].key : k \in DOMAIN table}

\* core.py:176  self.sites_config[target_key]
SiteOf(table, key) == table[CHOOSE k \in DOMAIN table : table[k].key = key]

ExactMatchNever(clean, table) == FALSE

\* core.py:119  clean_input in self.sites_config
ExactMatch(clean, table) == clean \in Keys(table)

\* core.py:125-130
Score(clean, src) == RatMax(Ratio(clean, src.key), Ratio(clean, LowerStr(src.name)))

AtLeastThreshold(r) == 100 * r.n >= CandidateThreshold * r.d

\* core.py:132  score > 40
AboveThreshold(r) == 100 * r.n > CandidateThreshold * r.d

AutoSelectsStrict(r) == 100 * r.n > AutoThreshold * r.d

\* core.py:145  top_score >= 80
AutoSelects(r) == 100 * r.n >= AutoThreshold * r.d

\* core.py:123-133  matches, in table order
Candidates(clean, table) ==
    LET scored == [k \in 1..Len(table) |->
                      [score |-> Score(clean, table[k]), key |-> table[k].key,
                       name |-> table[k].name]]
    IN  SelectSeq(scored, LAMBDA m : AboveThreshold(m.score))

RECURSIVE InsertTiesFirst(_, _)
InsertTiesFirst(x, s) ==
    IF s = <<>> THEN <<x>>
    ELSE IF ~RatLess(x.score, Head(s).score) THEN <<x>> \o s
    ELSE <<Head(s)>> \o InsertTiesFirst(x, Tail(s))

\* x goes behind every entry that does not score less: list.sort is stable,
\* also with reverse=True
RECURSIVE InsertDesc(_, _)
InsertDesc(x, s) ==
    IF s = <<>> THEN <<x>>
    ELSE IF RatLess(Head(s).score, x.score) THEN <<x>> \o s
    ELSE <<Head(s)>> \o InsertDesc(x, Tail(s))

\* core.py:136  matches.sort(key=lambda x: x[0], reverse=True)
RECURSIVE SortDesc(_)
SortDesc(ms) ==
    IF ms = <<>> THEN <<>>
    ELSE InsertDesc(ms[Len(ms)], SortDesc(SubSeq(ms, 1, Len(ms) - 1)))

Ranked(clean, table) == SortDesc(Candidates(clean, table))

\* core.py:158  options = matches[:5]
Options(ms) == SubSeq(ms, 1, IF Len(ms) < MaxOptions THEN Len(ms) ELSE MaxOptions)

\* core.py:171  options[selected_idx - 1][1]
Chosen(options, k) == options[k].key

\* None
NoUrl == [kind |-> "none", of |-> <<>>]

NeverAborts(url) == FALSE

\* core.py:206  if not url: return
AbortsRun(url) == url.kind = "none" \/ (url.kind = "input" /\ url.of = <<>>)

\* core.py:177  site_data.get("type", "static")
SiteType(site) == IF site.type = "absent" THEN "static" ELSE site.type

AfterInfoErrorGoesOn == "setup"

\* core.py:217-219  except Exception: return
AfterInfoError == "returned"

InitResolve ==
    /\ rs_sites \in SiteTables
    /\ rs_hunter \in BOOLEAN
    /\ rs_input \in Inputs
    /\ rs_pc = "resolve"
    /\ rs_matches = <<>>
    /\ rs_options = <<>>
    /\ rs_answer = -1
    /\ rs_selected = <<>>
    /\ rs_url = NoUrl
    /\ rs_log = {}
    /\ RunIdle
    /\ FetchIdle
    /\ OrderIdle
    /\ FilterIdle
    /\ CbzIdle
    /\ PdfIdle
    /\ ResumeIdle

\* core.py:114  the target is a direct URL and is returned as it is
ResolveUrl ==
    /\ rs_pc = "resolve"
    /\ StartsWithHttp(rs_input)
    /\ rs_url' = [kind |-> "input", of |-> rs_input]
    /\ rs_pc' = "resolved"
    /\ UNCHANGED <<rs_sites, rs_hunter, rs_input, rs_matches, rs_options, rs_answer,
                   rs_selected, rs_log>>
    /\ UNCHANGED notResolve

\* core.py:116-120  the cleaned target is a key of the table
ResolveExact ==
    /\ rs_pc = "resolve"
    /\ ~StartsWithHttp(rs_input)
    /\ ExactMatch(CleanInput(rs_input), rs_sites)
    /\ rs_selected' = CleanInput(rs_input)
    /\ rs_pc' = "finalize"
    /\ UNCHANGED <<rs_sites, rs_hunter, rs_input, rs_matches, rs_options, rs_answer,
                   rs_url, rs_log>>
    /\ UNCHANGED notResolve

\* core.py:122-163  every source is scored; no candidate: the raw target is
\* returned; a top score of 80 or more: the top candidate is finalized;
\* otherwise the first five candidates are listed and the prompt is shown
ResolveFuzzy ==
    /\ rs_pc = "resolve"
    /\ ~StartsWithHttp(rs_input)
    /\ ~ExactMatch(CleanInput(rs_input), rs_sites)
    /\ LET matches == Ranked(CleanInput(rs_input), rs_sites)
           scored  == IF rs_sites = <<>> THEN {} ELSE {"ratio"}
       IN  IF matches = <<>>
           THEN /\ rs_url' = [kind |-> "input", of |-> rs_input]
                /\ rs_pc' = "resolved"
                /\ rs_log' = rs_log \cup scored
                /\ UNCHANGED <<rs_options, rs_selected>>
           ELSE IF AutoSelects(matches[1].score)
           THEN /\ rs_selected' = matches[1].key
                /\ rs_pc' = "finalize"
                /\ rs_log' = rs_log \cup scored
                /\ UNCHANGED <<rs_options, rs_url>>
           ELSE /\ rs_options' = Options(matches)
                /\ rs_pc' = "prompt"
                /\ rs_log' = rs_log \cup scored \cup {"prompt"}
                /\ UNCHANGED <<rs_selected, rs_url>>
    /\ rs_matches' = Ranked(CleanInput(rs_input), rs_sites)
    /\ UNCHANGED <<rs_sites, rs_hunter, rs_input, rs_answer>>
    /\ UNCHANGED notResolve

\* core.py:165-172  IntPrompt.ask accepts one of 0..len(options)
PromptAnswers ==
    /\ rs_pc = "prompt"
    /\ \E k \in 0..Len(rs_options) :
           /\ rs_answer' = k
           /\ IF k = 0
              THEN /\ rs_url' = NoUrl
                   /\ rs_pc' = "resolved"
                   /\ UNCHANGED rs_selected
              ELSE /\ rs_selected' = Chosen(rs_options, k)
                   /\ rs_pc' = "finalize"
                   /\ UNCHANGED rs_url
    /\ UNCHANGED <<rs_sites, rs_hunter, rs_input, rs_matches, rs_options, rs_log>>
    /\ UNCHANGED notResolve

\* core.py:174-183, 194-196  _finalize_target up to the await of the hunter,
\* or to its return when the hunter is not asked
Finalize ==
    /\ rs_pc = "finalize"
    /\ LET site_data == SiteOf(rs_sites, rs_selected)
       IN  IF SiteType(site_data) = "dynamic" /\ rs_hunter
           THEN /\ rs_log' = rs_log \cup {"hunter"}
                /\ rs_pc' = "hunting"
                /\ UNCHANGED rs_url
           ELSE /\ rs_url' = IF site_data.url
                             THEN [kind |-> "direct", of |-> rs_selected]
                             ELSE NoUrl
                /\ rs_pc' = "resolved"
                /\ UNCHANGED rs_log
    /\ UNCHANGED <<rs_sites, rs_hunter, rs_input, rs_matches, rs_options, rs_answer,
                   rs_selected>>
    /\ UNCHANGED notResolve

\* core.py:183-192  find_active_mirror returns a mirror or nothing
HunterReturns ==
    /\ rs_pc = "hunting"
    /\ \E active_mirror \in BOOLEAN :
           rs_url' = IF active_mirror
                     THEN [kind |-> IF SiteOf(rs_sites, rs_selected).pattern
                                    THEN "pattern" ELSE "mirror",
                           of |-> rs_selected]
                     ELSE NoUrl
    /\ rs_pc' = "resolved"
    /\ UNCHANGED <<rs_sites, rs_hunter, rs_input, rs_matches, rs_options, rs_answer,
                   rs_selected, rs_log>>
    /\ UNCHANGED notResolve

\* core.py:205-212  the run goes on only with a URL
StartRun ==
    /\ rs_pc = "resolved"
    /\ rs_pc' = IF AbortsRun(rs_url) THEN "returned" ELSE "info"
    /\ UNCHANGED <<rs_sites, rs_hunter, rs_input, rs_matches, rs_options, rs_answer, rs_selected,
                   rs_url, rs_log>>
    /\ UNCHANGED notResolve

\* core.py:215-219  get_manga_info raises
GetMangaInfoRaises ==
    /\ rs_pc = "info"
    /\ rs_log' = rs_log \cup {"get_manga_info", "info_error"}
    /\ rs_pc' = AfterInfoError
    /\ UNCHANGED <<rs_sites, rs_hunter, rs_input, rs_matches, rs_options, rs_answer,
                   rs_selected, rs_url>>
    /\ UNCHANGED notResolve

\* core.py:215-216  get_manga_info returns
GetMangaInfoReturns ==
    /\ rs_pc = "info"
    /\ rs_log' = rs_log \cup {"get_manga_info"}
    /\ rs_pc' = "setup"
    /\ UNCHANGED <<rs_sites, rs_hunter, rs_input, rs_matches, rs_options, rs_answer,
                   rs_selected, rs_url>>
    /\ UNCHANGED notResolve

\* core.py:221-230  metadata lookup and the series directory
SeriesSetup ==
    /\ rs_pc = "setup"
    /\ \E made \in BOOLEAN :
           /\ rs_log' = rs_log \cup {"fetch_metadata"} \cup
                            (IF made THEN {"series_dir"} ELSE {})
           /\ rs_pc' = IF made THEN "chapters" ELSE "crashed"
    /\ UNCHANGED <<rs_sites, rs_hunter, rs_input, rs_matches, rs_options, rs_answer,
                   rs_selected, rs_url>>
    /\ UNCHANGED notResolve

\* core.py:234-241  the chapter list is asked for and filtered
GetChapters ==
    /\ rs_pc = "chapters"
    /\ rs_log' = rs_log \cup {"get_chapters"}
    /\ \E outcome \in {"raises", "none", "some"} :
           rs_pc' = CASE outcome = "raises" -> "crashed"
                      [] outcome = "none"   -> "returned"
                      [] outcome = "some"   -> "loop"
    /\ UNCHANGED <<rs_sites, rs_hunter, rs_input, rs_matches, rs_options, rs_answer,
                   rs_selected, rs_url>>
    /\ UNCHANGED notResolve

\* core.py:252-259, 282-337  the chapter loop, as what it calls for a chapter
\* that is skipped, has no pages, fails or completes
ChapterLoop ==
    /\ rs_pc = "loop"
    /\ \E outcome \in {"skipped", "empty", "failed", "completed"} :
           rs_log' = rs_log \cup
               CASE outcome = "skipped"   -> {}
                 [] outcome = "empty"     -> {"chapter_dir", "get_pages"}
                 [] outcome = "failed"    -> {"chapter_dir", "get_pages", "download_image",
                                              "package"}
                 [] outcome = "completed" -> {"chapter_dir", "get_pages", "download_image",
                                              "package", "mark_completed"}
    /\ rs_pc' = "returned"
    /\ UNCHANGED <<rs_sites, rs_hunter, rs_input, rs_matches, rs_options, rs_answer,
                   rs_selected, rs_url>>
    /\ UNCHANGED notResolve

NextResolve ==
    \/ ResolveUrl \/ ResolveExact \/ ResolveFuzzy \/ PromptAnswers
    \/ Finalize \/ HunterReturns \/ StartRun
    \/ GetMangaInfoRaises \/ GetMangaInfoReturns
    \/ SeriesSetup \/ GetChapters \/ ChapterLoop

SpecResolve == InitResolve /\ [][NextResolve]_vars

(***************************************************************************)
(* Properties of the resolution and of the head of the run, checked under  *)
(* SpecResolve.                                                            *)
(***************************************************************************)
ExtractorCalls == {"get_manga_info", "get_chapters", "get_pages", "download_image"}

\* the target is no URL and its normalized form is a key of the table
IsExactKey == ~StartsWithHttp(rs_input) /\ CleanInput(rs_input) \in Keys(rs_sites)

\* the resolution went through the similarity scores
IsFuzzy == ~StartsWithHttp(rs_input) /\ CleanInput(rs_input) \notin Keys(rs_sites)

Decided == rs_pc # "resolve"

\* _resolve_target is past its decision or has just returned; the rest of
\* the run leaves what it decided alone
Resolving == rs_pc \in {"prompt", "finalize", "hunting", "resolved"}

\* the position of a key in the table
TableIndex(key) == CHOOSE k \in DOMAIN rs_sites : rs_sites[k].key = key

ScoreAbove(r, percent) == 100 * r.n > percent * r.d

ScoreAtLeast(r, percent) == 100 * r.n >= percent * r.d

\* score of a source against the normalized target, the display name taken
\* in lower case
LoweredScore(src) ==
    RatMax(Ratio(CleanInput(rs_input), src.key),
           Ratio(CleanInput(rs_input), LowerStr(src.name)))

\* score of a source against the normalized target, the display name taken
\* as it is written
LiteralScore(src) ==
    RatMax(Ratio(CleanInput(rs_input), src.key),
           Ratio(CleanInput(rs_input), src.name))

\* C13: a target that is no URL and whose normalized form (percent-decoded,
\* trimmed, lowercased) is a key of the table is finalized as that source,
\* with no similarity score computed and no prompt.
ExactKeyResolvesDirectly ==
    (IsExactKey /\ Decided) =>
        /\ rs_selected = CleanInput(rs_input)
        /\ "ratio" \notin rs_log
        /\ "prompt" \notin rs_log
        /\ rs_answer = -1

\* a target written with an upper-case, encoded or padding character that
\* is a key once normalized has been resolved to the URL of that source
ExactKeyResolved ==
    /\ IsExactKey
    /\ rs_input # CleanInput(rs_input)
    /\ Len(rs_sites) > 1
    /\ rs_pc = "resolved"
    /\ rs_url = [kind |-> "direct", of |-> CleanInput(rs_input)]

\* C14: the prompt lists the first 5 candidates of the candidates ordered by
\* descending score; of two listed candidates the one with the greater
\* score is above the other, and candidates with equal score are in table
\* order.
PromptRanking ==
    rs_pc = "prompt" =>
        LET cands == {k \in DOMAIN rs_sites : ScoreAbove(LoweredScore(rs_sites[k]), 40)}
            ahead(j, k) ==
                \/ RatLess(LoweredScore(rs_sites[k]), LoweredScore(rs_sites[j]))
                \/ /\ ~RatLess(LoweredScore(rs_sites[j]), LoweredScore(rs_sites[k]))
                   /\ j < k
            listed == {TableIndex(rs_options[m].key) : m \in DOMAIN rs_options}
        IN  /\ Len(rs_options) = (IF Cardinality(cands) < 5 THEN Cardinality(cands) ELSE 5)
            /\ listed \subseteq cands
            /\ \A m \in DOMAIN rs_options :
                   rs_options[m].score = LoweredScore(rs_sites[TableIndex(rs_options[m].key)])
            /\ \A m \in DOMAIN rs_options : \A n \in DOMAIN rs_options :
                   m < n => ahead(TableIndex(rs_options[m].key), TableIndex(rs_options[n].key))
            /\ \A j \in listed : \A k \in cands \ listed : ahead(j, k)

\* a prompt over six candidates lists five of them, two with different
\* scores and two with the same score
PromptOverSixCandidates ==
    /\ rs_pc = "prompt"
    /\ Len(rs_matches) > 5
    /\ Len(rs_options) = 5
    /\ \E m \in DOMAIN rs_options : \E n \in DOMAIN rs_options :
           RatLess(rs_options[n].score, rs_options[m].score)
    /\ \E m \in DOMAIN rs_options : \E n \in DOMAIN rs_options :
           m # n /\ rs_options[m].score = rs_options[n].score

\* C15 as stated: a source is a candidate if and only if
\* 100 * max(ratio(input, key), ratio(input, displayName)) > 40, and with no
\* candidate the raw target is returned as the URL, with no prompt and no
\* MirrorHunter call.
CandidateRuleLiteral ==
    (IsFuzzy /\ Resolving) =>
        /\ {rs_matches[m].key : m \in DOMAIN rs_matches} =
               {rs_sites[k].key : k \in {j \in DOMAIN rs_sites :
                                            ScoreAbove(LiteralScore(rs_sites[j]), 40)}}
        /\ rs_matches = <<>> =>
               /\ rs_url = [kind |-> "input", of |-> rs_input]
               /\ "prompt" \notin rs_log /\ "hunter" \notin rs_log

\* C15, amended: a source is a candidate if and only if
\* 100 * max(ratio(n, key), ratio(n, displayName in lower case)) > 40, n
\* being the normalized target; with no candidate the raw target is
\* returned as the URL, with no prompt and no MirrorHunter call.
CandidateRuleLowered ==
    (IsFuzzy /\ Resolving) =>
        /\ {rs_matches[m].key : m \in DOMAIN rs_matches} =
               {rs_sites[k].key : k \in {j \in DOMAIN rs_sites :
                                            ScoreAbove(LoweredScore(rs_sites[j]), 40)}}
        /\ rs_matches = <<>> =>
               /\ rs_url = [kind |-> "input", of |-> rs_input]
               /\ "prompt" \notin rs_log /\ "hunter" \notin rs_log
               /\ rs_selected = <<>> /\ rs_answer = -1

\* a source that scores exactly 40 is no candidate, there is none, and the
\* raw target was returned
FallbackAtThreshold ==
    /\ IsFuzzy
    /\ rs_matches = <<>>
    /\ \E k \in DOMAIN rs_sites :
           LoweredScore(rs_sites[k]).n * 100 = LoweredScore(rs_sites[k]).d * 40
    /\ rs_pc = "resolved"
    /\ rs_url = [kind |-> "input", of |-> rs_input]

\* the score of every source of the table
Scores == [k \in DOMAIN rs_sites |-> LoweredScore(rs_sites[k])]

\* the candidates: the sources that score above 40
CandidatesOf(sc) == {k \in DOMAIN sc : ScoreAbove(sc[k], 40)}

\* the top-ranked candidate: the first of the table among those no other
\* candidate outscores
TopOf(sc) ==
    CHOOSE k \in CandidatesOf(sc) :
        \A j \in CandidatesOf(sc) :
            /\ ~RatLess(sc[k], sc[j])
            /\ sc[j] = sc[k] => k <= j

\* C16: when no key matches exactly and the highest score is 80 or more, the
\* top-ranked candidate is finalized without a prompt; when the highest
\* score is above 40 and below 80, no source is selected without an answer
\* to the prompt.
AutoSelectRule ==
    (IsFuzzy /\ Resolving) =>
        LET sc  == Scores
            top == TopOf(sc)
        IN  CandidatesOf(sc) # {} =>
                IF ScoreAtLeast(sc[top], 80)
                THEN /\ rs_selected = rs_sites[top].key
                     /\ "prompt" \notin rs_log
                     /\ rs_answer = -1
                ELSE /\ "prompt" \in rs_log
                     /\ rs_selected # <<>> => rs_answer >= 1
                     /\ rs_url # NoUrl => rs_answer >= 1

\* a top score of exactly 80 among several candidates was selected without
\* a prompt and resolved
AutoSelectedAtEighty ==
    /\ IsFuzzy
    /\ rs_pc = "resolved"
    /\ rs_url # NoUrl
    /\ rs_answer = -1
    /\ Len(rs_matches) > 1
    /\ rs_selected = rs_matches[1].key
    /\ rs_matches[1].score.n * 100 = rs_matches[1].score.d * 80

\* C17: with the answer 0 resolve returns nothing, the MirrorHunter is not
\* called and the run ends with no Extractor call, no series directory and
\* no HistoryStore write; an answer k of 1..5 selects the k-th listed
\* candidate.
CancelAbortsRun ==
    /\ rs_answer = 0 =>
           /\ rs_url = NoUrl
           /\ rs_selected = <<>>
           /\ rs_pc \in {"resolved", "returned"}
           /\ rs_log \cap (ExtractorCalls \cup {"hunter", "series_dir", "chapter_dir",
                                                "mark_completed"}) = {}
    /\ rs_answer >= 1 =>
           /\ rs_answer <= Len(rs_options)
           /\ rs_selected = rs_options[rs_answer].key

\* the prompt listed five candidates, the answer was 0 and the run is over
CancelledRun ==
    /\ rs_answer = 0
    /\ Len(rs_options) = 5
    /\ rs_pc = "returned"

\* C18: for a selected source of type dynamic, resolve returns a URL only if
\* the MirrorHunter was called in this resolution and found a live mirror;
\* without a live mirror resolve returns nothing and the run ends.  This
\* holds also when the MirrorHunter is not available and the record has a
\* direct URL.
DynamicNeedsMirror ==
    (rs_selected # <<>> /\ SiteType(SiteOf(rs_sites, rs_selected)) = "dynamic"
                        /\ rs_pc \notin {"finalize", "hunting"}) =>
        \/ /\ "hunter" \in rs_log
           /\ rs_url.kind \in {"mirror", "pattern"}
        \/ /\ rs_url = NoUrl
           /\ rs_pc \in {"resolved", "returned"}

\* C19: when get_manga_info raises, the run ends: get_chapters and get_pages
\* are not called, no page download or packaging starts, the HistoryStore
\* is not written, and nothing is raised out of download_manga.
InfoErrorEndsRun ==
    "info_error" \in rs_log =>
        /\ rs_pc = "returned"
        /\ rs_log \cap {"fetch_metadata", "series_dir", "get_chapters", "chapter_dir",
                        "get_pages", "download_image", "package", "mark_completed"} = {}

\* a resolution through the MirrorHunter was followed by a get_manga_info
\* that raised
InfoErrorAfterMirror ==
    /\ "info_error" \in rs_log
    /\ "hunter" \in rs_log
    /\ rs_pc = "returned"

(***************************************************************************)
(* create_cbz_archive (src/yomi/utils/archive.py:8-30) over a flat source  *)
(* directory.                                                              *)
(*                                                                         *)
(* z_listing is the order in which os.walk lists the files of the          *)
(* directory; z_meta tells whether the caller passed the metadata record   *)
(* (core.py:284-289 builds it with its five keys) or left the default,     *)
(* None.  A path is the sequence of its components.                        *)
(***************************************************************************)
\* the most files the source directory holds
MaxDirFiles == 3

\* "001.jpg", "002.jpg", "003.jpg", "010.png", "2.jpg"
DirNames ==
    { <<"0", "0", "1", ".", "j", "p", "g">>, <<"0", "0", "2", ".", "j", "p", "g">>,
      <<"0", "0", "3", ".", "j", "p", "g">>, <<"0", "1", "0", ".", "p", "n", "g">>,
      <<"2", ".", "j", "p", "g">> }

\* os.walk: the files of the directory, each once, in the order of the
\* file system
Listings ==
    {l \in UNION {[1..n -> DirNames] : n \in 0..MaxDirFiles} :
        \A j \in DOMAIN l : \A k \in DOMAIN l : l[j] = l[k] => j = k}

SourceFolder == <<"downloads", "Series", "Ch1">>

\* archive.py:18  os.path.join(root, file)
JoinPath(root, file) == Append(root, file)

\* archive.py:19  os.path.relpath(file_path, start=source_folder), for a
\* path under start
RelPath(path, start) == SubSeq(path, Len(start) + 1, Len(path))

DescriptorName == <<"ComicInfo.xml">>

EnumerateUnsorted(files) == files

\* archive.py:17  for file in sorted(files)
Enumerate(files) == SortedFiles(files)

\* archive.py:16-20  one entry per file of the directory
FileEntries(listing) ==
    LET files == Enumerate([k \in 1..Len(listing) |-> [name |-> listing[k]]])
    IN  [k \in 1..Len(files) |->
            [kind    |-> "file",
             arcname |-> RelPath(JoinPath(SourceFolder, files[k].name), SourceFolder)]]

\* archive.py:23-25  cbz.writestr("ComicInfo.xml", xml_str)
MetaEntries(meta) ==
    IF meta THEN <<[kind |-> "descriptor", arcname |-> DescriptorName]>> ELSE <<>>

InitCbz ==
    /\ z_listing \in Listings
    /\ z_meta \in BOOLEAN
    /\ z_pc = "call"
    /\ z_entries = <<>>
    /\ z_ok = FALSE
    /\ RunIdle
    /\ FetchIdle
    /\ OrderIdle
    /\ FilterIdle
    /\ ResolveIdle
    /\ PdfIdle
    /\ ResumeIdle

\* archive.py:13-27  every write succeeds
CbzWrites ==
    /\ z_pc = "call"
    /\ z_entries' = FileEntries(z_listing) \o MetaEntries(z_meta)
    /\ z_ok' = TRUE
    /\ z_pc' = "returned"
    /\ UNCHANGED <<z_listing, z_meta>>
    /\ UNCHANGED notCbz

\* archive.py:13-30  opening the archive, one of the writes or closing it
\* raises: the entries written so far stay and False is returned
CbzFails ==
    /\ z_pc = "call"
    /\ \E k \in 0..Len(FileEntries(z_listing) \o MetaEntries(z_meta)) :
           z_entries' = SubSeq(FileEntries(z_listing) \o MetaEntries(z_meta), 1, k)
    /\ z_ok' = FALSE
    /\ z_pc' = "returned"
    /\ UNCHANGED <<z_listing, z_meta>>
    /\ UNCHANGED notCbz

NextCbz == CbzWrites \/ CbzFails

SpecCbz == InitCbz /\ [][NextCbz]_vars

(***************************************************************************)
(* Properties of the CBZ archive, checked under SpecCbz.                   *)
(***************************************************************************)
FileEntryIds == {k \in DOMAIN z_entries : z_entries[k].kind = "file"}

DescriptorIds == {k \in DOMAIN z_entries : z_entries[k].kind = "descriptor"}

\* C20: the files of a flat source directory are the entries of the archive
\* in ascending lexicographic order of their names, whatever the order in
\* which the directory lists them, each under its name relative to the
\* source directory; they are followed by exactly one metadata descriptor
\* entry when metadata is supplied and by none otherwise.
CbzEntryOrder ==
    (z_pc = "returned" /\ z_ok) =>
        /\ Cardinality(FileEntryIds) = Len(z_listing)
        /\ \A j \in DOMAIN z_listing : \E k \in FileEntryIds :
               z_entries[k].arcname = <<z_listing[j]>>
        /\ \A j \in FileEntryIds : \A k \in FileEntryIds :
               j < k => LexLess(z_entries[j].arcname[1], z_entries[k].arcname[1])
        /\ Cardinality(DescriptorIds) = (IF z_meta THEN 1 ELSE 0)
        /\ \A d \in DescriptorIds : d = Len(z_entries) /\ z_entries[d].arcname = DescriptorName

\* the directory lists 003.jpg, 001.jpg, 002.jpg and the archive reads
\* 001.jpg, 002.jpg, 003.jpg and the descriptor
CbzRoundTrip ==
    /\ z_pc = "returned" /\ z_ok /\ z_meta
    /\ z_listing = << <<"0", "0", "3", ".", "j", "p", "g">>,
                      <<"0", "0", "1", ".", "j", "p", "g">>,
                      <<"0", "0", "2", ".", "j", "p", "g">> >>
    /\ Len(z_entries) = 4
    /\ z_entries[1].arcname = << <<"0", "0", "1", ".", "j", "p", "g">> >>
    /\ z_entries[3].arcname = << <<"0", "0", "3", ".", "j", "p", "g">> >>

(***************************************************************************)
(* create_pdf_document (src/yomi/utils/archive.py:32-65) over a flat        *)
(* source directory.                                                       *)
(*                                                                         *)
(* p_listing is the order in which os.walk lists the files.  A file on     *)
(* disk is a record of its name and of the picture it holds, named after   *)
(* the file of the listing the picture came from; <<>> is a broken file.   *)
(* The call is followed file by file: a webp file can turn out unreadable, *)
(* its jpg sibling can fail to be written and its removal can fail.        *)
(***************************************************************************)
\* the most files the source directory holds
MaxPdfFiles == 3

\* "1.jpg", "1.webp", "2.WEBP", "5.jpeg", "0.png", "4.txt"
PdfNames ==
    { <<"1", ".", "j", "p", "g">>, <<"1", ".", "w", "e", "b", "p">>,
      <<"2", ".", "W", "E", "B", "P">>, <<"5", ".", "j", "p", "e", "g">>,
      <<"0", ".", "p", "n", "g">>, <<"4", ".", "t", "x", "t">> }

PdfListings ==
    {l \in UNION {[1..n -> PdfNames] : n \in 0..MaxPdfFiles} :
        \A j \in DOMAIN l : \A k \in DOMAIN l : l[j] = l[k] => j = k}

\* str.endswith
EndsWith(s, suffix) ==
    Len(s) >= Len(suffix) /\ SubSeq(s, Len(s) - Len(suffix) + 1, Len(s)) = suffix

JpgExt == <<".", "j", "p", "g">>
WebpExt == <<".", "w", "e", "b", "p">>

\* archive.py:41  the extensions a page file can have
AcceptedExts == {JpgExt, <<".", "j", "p", "e", "g">>, <<".", "p", "n", "g">>, WebpExt}

\* archive.py:41  file.lower().endswith(('.jpg', '.jpeg', '.png', '.webp'))
IsImage(file) == \E e \in AcceptedExts : EndsWith(LowerStr(file), e)

\* archive.py:45  file.lower().endswith(".webp")
IsWebp(file) == EndsWith(LowerStr(file), WebpExt)

\* os.path.splitext(path)[0] for a name with one dot, not at its start
SplitExtRoot(file) ==
    LET dots == {k \in DOMAIN file : file[k] = "." /\ k > 1}
    IN  IF dots = {} THEN file
        ELSE SubSeq(file, 1, (CHOOSE k \in dots : \A m \in dots : m <= k) - 1)

\* archive.py:48  new_path = os.path.splitext(img_path)[0] + ".jpg"
NewPath(file) == SplitExtRoot(file) \o JpgExt

\* archive.py:40  for file in sorted(files)
PdfFiles == SortedFiles([k \in 1..Len(p_listing) |-> [name |-> p_listing[k]]])

\* the picture the file of that name holds
PictureAt(disk, name) == (CHOOSE d \in disk : d.name = name).pic

\* open(path, "wb") and the write: the file of that name holds that picture
StoreFile(disk, name, pic) ==
    {d \in disk : d.name # name} \cup {[name |-> name, pic |-> pic]}

\* os.remove(path)
RemoveFile(disk, name) == {d \in disk : d.name # name}

\* what the handling of one webp file can come to
WebpOutcomes == {"converted", "unreadable", "unsaved", "kept"}

InitPdf ==
    /\ p_listing \in PdfListings
    /\ p_pc = "walk"
    /\ p_k = 0
    /\ p_images = <<>>
    /\ p_disk = {[name |-> p_listing[k], pic |-> p_listing[k]] : k \in DOMAIN p_listing}
    /\ p_doc = <<>>
    /\ p_ok = FALSE
    /\ RunIdle
    /\ FetchIdle
    /\ OrderIdle
    /\ FilterIdle
    /\ ResolveIdle
    /\ CbzIdle
    /\ ResumeIdle

\* archive.py:40-41  a file whose extension is not accepted is passed over
PdfSkipsFile ==
    /\ p_pc = "walk" /\ p_k < Len(PdfFiles)
    /\ ~IsImage(PdfFiles[p_k + 1].name)
    /\ p_k' = p_k + 1
    /\ UNCHANGED <<p_listing, p_pc, p_images, p_disk, p_doc, p_ok>>
    /\ UNCHANGED notPdf

\* archive.py:41-42, 54-55  a jpg, jpeg or png file joins the list
PdfTakesImage ==
    /\ p_pc = "walk" /\ p_k < Len(PdfFiles)
    /\ IsImage(PdfFiles[p_k + 1].name) /\ ~IsWebp(PdfFiles[p_k + 1].name)
    /\ p_images' = Append(p_images, PdfFiles[p_k + 1].name)
    /\ p_k' = p_k + 1
    /\ UNCHANGED <<p_listing, p_pc, p_disk, p_doc, p_ok>>
    /\ UNCHANGED notPdf

\* archive.py:45-53  a webp file: Image.open(...).convert("RGB"), save under
\* the jpg name, append that name, remove the webp file; an exception at
\* any of these steps is swallowed and the walk goes on (continue)
PdfTakesWebp ==
    /\ p_pc = "walk" /\ p_k < Len(PdfFiles)
    /\ IsWebp(PdfFiles[p_k + 1].name)
    /\ LET file == PdfFiles[p_k + 1].name
           new_path == NewPath(file)
           saved == StoreFile(p_disk, new_path, PictureAt(p_disk, file))
       IN  \E outcome \in WebpOutcomes :
            CASE outcome = "converted" ->
                    /\ p_disk' = RemoveFile(saved, file)
                    /\ p_images' = Append(p_images, new_path)
              [] outcome = "unreadable" ->
                    /\ p_disk' = p_disk
                    /\ p_images' = p_images
              [] outcome = "unsaved" ->
                    /\ p_disk' = StoreFile(p_disk, new_path, <<>>)
                    /\ p_images' = p_images
              [] outcome = "kept" ->
                    /\ p_disk' = saved
                    /\ p_images' = Append(p_images, new_path)
    /\ p_k' = p_k + 1
    /\ UNCHANGED <<p_listing, p_pc, p_doc, p_ok>>
    /\ UNCHANGED notPdf

\* archive.py:57  if not images: return False
PdfNoImages ==
    /\ p_pc = "walk" /\ p_k = Len(PdfFiles)
    /\ p_images = <<>>
    /\ p_ok' = FALSE
    /\ p_pc' = "returned"
    /\ UNCHANGED <<p_listing, p_k, p_images, p_disk, p_doc>>
    /\ UNCHANGED notPdf

\* archive.py:59-62  img2pdf.convert(images) reads every file of the list and
\* the document is written: one page per element of the list
PdfComposes ==
    /\ p_pc = "walk" /\ p_k = Len(PdfFiles)
    /\ p_images # <<>>
    /\ \A k \in DOMAIN p_images : PictureAt(p_disk, p_images[k]) # <<>>
    /\ p_doc' = [k \in DOMAIN p_images |-> PictureAt(p_disk, p_images[k])]
    /\ p_ok' = TRUE
    /\ p_pc' = "returned"
    /\ UNCHANGED <<p_listing, p_k, p_images, p_disk>>
    /\ UNCHANGED notPdf

\* archive.py:59-65  opening the output, img2pdf.convert or the write
\* raises: False is returned
PdfComposeFails ==
    /\ p_pc = "walk" /\ p_k = Len(PdfFiles)
    /\ p_images # <<>>
    /\ p_ok' = FALSE
    /\ p_pc' = "returned"
    /\ UNCHANGED <<p_listing, p_k, p_images, p_disk, p_doc>>
    /\ UNCHANGED notPdf

NextPdf ==
    \/ PdfSkipsFile
    \/ PdfTakesImage
    \/ PdfTakesWebp
    \/ PdfNoImages
    \/ PdfComposes
    \/ PdfComposeFails

SpecPdf == InitPdf /\ [][NextPdf]_vars

(***************************************************************************)
(* Properties of the PDF document, checked under SpecPdf.                  *)
(***************************************************************************)
\* the files of the directory with an accepted extension, in lexicographic
\* order of their names
AcceptedFiles ==
    LET names == [k \in 1..Len(PdfFiles) |-> PdfFiles[k].name]
    IN  SelectSeq(names, IsImage)

\* C21: the document has exactly one page per file with an accepted
\* extension (jpg, jpeg, png, webp), in lexicographic filename order, each
\* page showing the picture of its file; every webp file is replaced by a
\* jpg sibling and no webp file is left on disk afterwards; the call returns
\* false when the directory holds no image.
PdfOnePagePerImage ==
    p_pc = "returned" =>
        /\ AcceptedFiles = <<>> => ~p_ok
        /\ p_ok =>
            /\ p_doc = AcceptedFiles
            /\ \A d \in p_disk : ~IsWebp(d.name)
            /\ \A k \in DOMAIN AcceptedFiles :
                   IsWebp(AcceptedFiles[k]) =>
                       \E d \in p_disk : d.name = NewPath(AcceptedFiles[k])

(***************************************************************************)
(* A run that is interrupted, and the run that follows it.                 *)
(*                                                                         *)
(* YomiCore.download_manga (core.py:198-202) catches the KeyboardInterrupt *)
(* that ends asyncio.run: the coordinating coroutine is left where it was, *)
(* the page download tasks are cancelled and nothing is cleaned up.  The   *)
(* following invocation is a new process over the same output directory:   *)
(* the same chapter list, format and worker count, the HistoryStore and    *)
(* the files as the first run left them.  The first run is followed with   *)
(* everything Spec allows; the run that follows it is followed with        *)
(* collaborators that neither raise nor fail.                              *)
(***************************************************************************)
NoPrior == [how |-> "none", history |-> {}, pos |-> 0]

\* the chapter lists of the runs that are followed over two invocations: two
\* chapters, with the same folder name and with different ones
ResumeLists == {<<TitleA, TitleB>>, <<TitleA, TitleC>>}

InitResume ==
    /\ chapters \in ResumeLists
    /\ fmt \in Formats
    /\ workers = 1
    /\ history = {}
    /\ pos = 1
    /\ pc = "loop"
    /\ chap = [i \in 1..Len(chapters) |-> NewChap]
    /\ task = [i \in ChapIds |-> NoTasks]
    /\ dirExists = [q \in Paths |-> FALSE]
    /\ dirFiles = [q \in Paths |-> {}]
    /\ archive = [q \in Paths |-> NoArchive]
    /\ r_run = 1
    /\ r_prior = NoPrior
    /\ FetchIdle
    /\ OrderIdle
    /\ FilterIdle
    /\ ResolveIdle
    /\ CbzIdle
    /\ PdfIdle

\* core.py:200-202  the interrupt reaches the coroutine in the chapter loop,
\* while it awaits get_pages or while it awaits the gather
Interrupt ==
    /\ r_run = 1
    /\ pc \in {"loop", "getpages", "gather"}
    /\ pc' = "interrupted"
    /\ task' = CancelAll(task)
    /\ UNCHANGED <<chapters, fmt, workers, history, pos, chap, dirExists, dirFiles, archive>>
    /\ UNCHANGED <<fetchVars, orderVars, filterVars, resolveVars, cbzVars, pdfVars, resumeVars>>

\* core.py:315-330, 200-202  the interrupt comes during the packaging step:
\* the packager, which runs in the executor, ends its call; the chapter
\* folder is removed if the coroutine got as far as shutil.rmtree;
\* mark_completed (core.py:330) is not reached
PackageInterrupted ==
    /\ r_run = 1
    /\ pc = "package"
    /\ \E ioOk \in BOOLEAN, removed \in BOOLEAN :
        LET q == PathOf(pos)
            r == IF fmt = "pdf" THEN CreatePdf(dirFiles[q], archive[q], pos, ioOk)
                                ELSE CreateCbz(dirFiles[q], pos, ioOk)
        IN  /\ archive' = [archive EXCEPT ![q] = r.arch]
            /\ removed => RemovesFolder(r.result)
            /\ dirExists' = IF removed THEN [dirExists EXCEPT ![q] = FALSE] ELSE dirExists
            /\ dirFiles' = IF removed THEN [dirFiles EXCEPT ![q] = {}] ELSE dirFiles
            /\ chap' = [chap EXCEPT ![pos].pack = IF r.result THEN "true" ELSE "false"]
    /\ pc' = "interrupted"
    /\ task' = CancelAll(task)
    /\ UNCHANGED <<chapters, fmt, workers, history, pos>>
    /\ UNCHANGED <<fetchVars, orderVars, filterVars, resolveVars, cbzVars, pdfVars, resumeVars>>

\* cli.py:111-112, core.py:42-63, 198-206  the next invocation: a new
\* YomiCore over the same output directory and the same target and range
Rerun ==
    /\ r_run = 1
    /\ pc = "interrupted"
    /\ r_run' = 2
    /\ r_prior' = [how |-> pc, history |-> history, pos |-> pos]
    /\ pos' = 1
    /\ pc' = "loop"
    /\ chap' = [i \in 1..Len(chapters) |-> NewChap]
    /\ task' = [i \in ChapIds |-> NoTasks]
    /\ UNCHANGED <<chapters, fmt, workers, history, dirExists, dirFiles, archive>>
    /\ UNCHANGED <<fetchVars, orderVars, filterVars, resolveVars, cbzVars, pdfVars>>

\* no call has raised, no page download has failed, no packaging has
\* returned False
Undisturbed ==
    /\ pc # "crashed"
    /\ \A i \in DOMAIN chap :
           ~chap[i].exc /\ chap[i].nFail = 0 /\ chap[i].pack # "false"

NextResume ==
    \/ Next /\ (r_run = 2 => Undisturbed')
    \/ Interrupt
    \/ PackageInterrupted
    \/ Rerun

SpecResume == InitResume /\ [][NextResume]_vars

(***************************************************************************)
(* Further properties of the run, checked under Spec.                      *)
(***************************************************************************)
\* the pages of chapter i whose download returned Success
OkPages(i) == {p \in PageIds : task[i][p] = "ok"}

\* the packaging step of chapter i went through: the packager returned true
\* and the folder was removed, or the folder is the output
Packaged(i) ==
    /\ ~chap[i].exc
    /\ chap[i].pack = "true" \/ (fmt = "folder" /\ chap[i].st = "Completed")

\* C22: a chapter of which some but not all page downloads returned Failure
\* and whose packaging succeeded is packaged with exactly the pages that
\* were downloaded, the failed ones absent; it is marked completed, so that
\* a later run finds it in the HistoryStore and skips it.
PartialFailurePermissive ==
    \A i \in ListIds :
        (chap[i].nOk > 0 /\ chap[i].nFail > 0 /\ Packaged(i)) =>
            /\ chap[i].marked
            /\ ShouldSkip(history, chapters[i])
            /\ fmt = "folder" => PagesOf(dirFiles[PathOf(i)]) = OkPages(i)
            /\ fmt # "folder" =>
                   /\ archive[PathOf(i)].exists
                   /\ archive[PathOf(i)].pages = OkPages(i)

\* C24: a chapter folder is removed only by the step in which the packaging
\* of that chapter (pdf or cbz) returned true, so never by the packager alone
\* and never for the folder format; when the packaging returns false the
\* folder stays on disk and the chapter is not marked completed.
FolderRemovedOnlyAfterPackaging ==
    [][/\ \A q \in Paths :
              (dirExists[q] /\ ~dirExists'[q]) =>
                  /\ pc = "package" /\ q = PathOf(pos)
                  /\ fmt \in {"pdf", "cbz"}
                  /\ chap'[pos].pack = "true"
       /\ (pc = "package" /\ pc' = "loop" /\ chap'[pos].pack = "false") =>
              /\ dirExists'[PathOf(pos)]
              /\ history' = history
              /\ ~chap'[pos].marked]_vars

\* a chapter whose packaging returned false, with its folder and the page
\* files in it still on disk, and not marked
FolderKeptAfterFailedPackaging ==
    \E i \in ListIds :
        /\ chap[i].pack = "false"
        /\ dirExists[PathOf(i)] /\ dirFiles[PathOf(i)] # {}
        /\ ~chap[i].marked /\ chapters[i] \notin history

\* a step in which the HistoryStore is called for chapter i: is_completed
\* when the loop reaches the chapter (core.py:253), mark_completed when the
\* chapter is done (core.py:330)
HistoryCall(i) ==
    \/ ~chap[i].snap.taken /\ chap'[i].snap.taken
    \/ ~chap[i].marked /\ chap'[i].marked

\* a step of a page download task
TaskStep == task' # task /\ pc' = pc /\ pos' = pos

\* C25: every isCompleted and markCompleted call is made by the coordinating
\* flow (for the chapter the loop is at, never in a step of a page download
\* task), and none is made while a page download of any chapter is in flight.
HistoryAccessSequential ==
    [][/\ \A i \in ListIds : HistoryCall(i) => (i = pos /\ InFlightSet = {})
       /\ TaskStep => (history' = history /\ \A i \in ListIds : ~HistoryCall(i))]_vars

Terminal == {"Completed", "Failed", "Skipped"}

\* the run has ended: the loop is through (core.py:261) or an exception has
\* left asyncio.run
RunEnded == pc \in {"done", "crashed"}

\* the steps a chapter's state takes
ChapterTransitions ==
    \A i \in ListIds :
        /\ chap[i].st \in Terminal => chap'[i].st = chap[i].st
        /\ (chap'[i].st = "Skipped" /\ chap[i].st # "Skipped") => chap[i].st = "Pending"
        /\ (chap'[i].st = "Failed" /\ chap[i].st # "Failed") =>
               chap[i].st \in {"Fetching", "Downloaded"}
        /\ (chap'[i].st = "Completed" /\ chap[i].st # "Completed") =>
               /\ chap[i].npages > 0 /\ GatherComplete(i)
               /\ fmt = "folder" => chap[i].st = "Fetching"
               /\ fmt \in {"pdf", "cbz"} =>
                      (chap[i].st = "Downloaded" /\ chap'[i].pack = "true")
        /\ (chap'[i].st = "Downloaded" /\ chap[i].st # "Downloaded") =>
               chap[i].st = "Fetching"

\* C26: when the run has ended every chapter of the filtered list is in one
\* of the terminal states Completed, Failed and Skipped; Skipped is entered
\* from Pending only, Failed only once Fetching has begun, Completed only
\* through Fetching, Downloaded and (pdf, cbz) a packaging that returned
\* true, in that order; a terminal state is never left.
ChapterStateMachine ==
    /\ [](RunEnded => \A i \in ListIds : chap[i].st \in Terminal)
    /\ [][ChapterTransitions]_vars

(***************************************************************************)
(* Properties of an interrupted run and of the run that follows it,        *)
(* checked under SpecResume.                                               *)
(***************************************************************************)
\* the step that ends the first run by an interrupt
InterruptStep == pc # "interrupted" /\ pc' = "interrupted"

\* the start of the following run
RerunStep == r_run = 1 /\ r_run' = 2

\* what is on disk at path q is left as it is
DiskKept(q) ==
    /\ dirExists'[q] = dirExists[q]
    /\ dirFiles'[q] = dirFiles[q]
    /\ archive[q].exists => archive'[q].exists

\* in the first run the HistoryStore holds the chapters that were marked
OnlyMarkedInHistory ==
    r_run = 1 => \A i \in ListIds : chapters[i] \in history <=> chap[i].marked

\* the following run skips the chapters the HistoryStore held when the first
\* run ended and no other; every other chapter it reaches gets its page list
\* and one download per page, whatever the folder already holds
ResumeByHistory ==
    r_run = 2 =>
        \A i \in ListIds :
            chap[i].snap.taken =>
                /\ chap[i].st = "Skipped" <=> chapters[i] \in r_prior.history
                /\ chapters[i] \notin r_prior.history =>
                       /\ chap[i].getPages = 1
                       /\ chap[i].got => chap[i].started = chap[i].npages

\* C27: when a run is interrupted, a chapter whose processing had not
\* reached markCompleted is not in the HistoryStore, and the interrupt and
\* the restart remove no file that was written (a chapter folder goes only
\* by the cleanup after a packaging that returned true); the following run
\* over the same list skips exactly the chapters marked before the
\* interrupt and fetches the pages of the interrupted chapter again, all of
\* them.
InterruptAndResume ==
    /\ [](OnlyMarkedInHistory /\ ResumeByHistory)
    /\ [][/\ InterruptStep =>
                /\ history' = history
                /\ \A q \in Paths :
                       \/ DiskKept(q)
                       \/ pc = "package" /\ q = PathOf(pos) /\ chap'[pos].pack = "true"
          /\ RerunStep =>
                /\ history' = history
                /\ r_prior'.history = history
                /\ \A q \in Paths : DiskKept(q) /\ archive'[q] = archive[q]]_vars

\* the first run completed one chapter and was interrupted in the next one
\* with a page file written; the following run has skipped the first and
\* downloaded every page of the second again
ResumedAfterInterrupt ==
    /\ r_run = 2 /\ r_prior.how = "interrupted"
    /\ \E i \in ListIds : \E j \in ListIds :
        /\ chap[i].st = "Skipped" /\ chapters[i] \in r_prior.history
        /\ j = r_prior.pos
        /\ chap[j].snap.files # {}
        /\ chap[j].npages > 0 /\ chap[j].started = chap[j].npages
        /\ chap[j].st = "Completed"

(***************************************************************************)
(* Properties of the page file names, checked under SpecOrder.             *)
(***************************************************************************)
\* the part of a file name before its first dot
Stem(name) ==
    SubSeq(name, 1, (CHOOSE k \in DOMAIN name :
                        name[k] = "." /\ \A m \in 1..(k - 1) : name[m] # ".") - 1)

\* C28: the files of the page downloads of one chapter have pairwise
\* distinct names in the chapter folder: the digits of the 1-based page
\* index, zero-padded to at least 3 digits, then the extension; so no two
\* downloads of a chapter write the same file, whatever the page count and
\* the extensions.
PagePathsDistinct ==
    /\ \A j \in DOMAIN o_done : \A k \in DOMAIN o_done :
           j # k => o_done[j].name # o_done[k].name
    /\ \A j \in DOMAIN o_done :
           /\ Len(Stem(o_done[j].name)) >= 3
           /\ \A m \in DOMAIN Stem(o_done[j].name) : IsDigit(Stem(o_done[j].name)[m])
           /\ DigitsValue(Stem(o_done[j].name)) = o_done[j].page
           /\ o_done[j].name = Stem(o_done[j].name) \o <<".">> \o ExtOf(o_ext[o_done[j].page])

\* pages 1, 10 and the last of a chapter of more than 999 pages are on disk,
\* with the same extension
LongChapterPagesLanded ==
    /\ o_n > 999
    /\ \E a \in DOMAIN o_done : \E b \in DOMAIN o_done : \E c \in DOMAIN o_done :
        /\ o_done[a].page = 1 /\ o_done[b].page = 10 /\ o_done[c].page = o_n
        /\ ExtOf(o_ext[1]) = ExtOf(o_ext[10])
        /\ Len(o_done[c].name) > Len(o_done[a].name)

====
